---- MODULE Spec2Model ----
(***************************************************************************)
(* A model of dns-updater: the container network state tracker             *)
(* (container_network_state.py), the reconciler (container_monitor.py),    *)
(* the file backend, the batch dispatcher and the replication fan-out      *)
(* (distributed_dns_manager.py) and the dispatchers of dns_manager.py.     *)
(***************************************************************************)
EXTENDS Integers, Sequences, FiniteSets, TLC

(***************************************************************************)
(* Value universes.  A snapshot is a Python dict                           *)
(* {container: {network: ip}}: a function whose domain is the set of keys. *)
(***************************************************************************)
\* Python strings are sequences of characters.
web == <<"w", "e", "b">>
traefik == <<"t", "r", "a", "e", "f", "i", "k">>
bridge == <<"b", "r", "i", "d", "g", "e">>
app_net == <<"a", "p", "p", "_", "n", "e", "t">>
flannel == <<"f", "l", "a", "n", "n", "e", "l">>
network == <<"n", "e", "t", "w", "o", "r", "k">>
docker_local == <<"d", "o", "c", "k", "e", "r", ".", "l", "o", "c", "a", "l">>

Containers == {web, traefik}
Networks == {bridge, app_net}
IPs == {"10.0.0.2", "10.244.0.9"}

\* The addresses of IPs inside the CIDR that _detect_flannel_network read
\* from /var/run/flannel/subnet.env (10.244.0.0/16).
FlannelIPs == {"10.244.0.9"}

\* ContainerMonitor.flannel_network: None, or the network of FLANNEL_NETWORK.
NoFlannel == [cidr |-> "None"]
Flannel16 == [cidr |-> "10.244.0.0/16"]

\* Every {network: ip} dict over a set of networks (the empty dict included).
NetMapsOver(nets) == UNION {[ns -> IPs] : ns \in SUBSET nets}

\* Every snapshot in which container c draws its dict from maps[c].
SnapshotsOf(maps) ==
    UNION {{s \in [cs -> UNION {maps[c] : c \in cs}] : \A c \in cs : s[c] \in maps[c]}
           : cs \in SUBSET DOMAIN maps}

\* The snapshots handed to the tracker when it is driven on its own.
TrackerSnapshots ==
    SnapshotsOf([c \in Containers |->
                    IF c = web THEN NetMapsOver(Networks) ELSE NetMapsOver({bridge})])

EmptyDict == [x \in {} |-> x]

\* STATE_CLEANUP_CYCLES default
default_cleanup_cycles == 3

\* The largest STATE_CLEANUP_CYCLES a tracker is constructed with.
MaxCycles == 3

\* Cap of the history counters that measure absences.
MaxRun == 4

VARIABLES
    container_networks,   \* ContainerNetworkState.container_networks
    previous_networks,    \* ContainerNetworkState.previous_networks
    gone_containers,      \* ContainerNetworkState.gone_containers
    has_changes,          \* the value the last update_state returned
    changes,              \* the ChangeSet of the last get_changes
    absent_run,           \* history: cycles each container has now been absent
    last_call,            \* history: what the last tracker call was given
    config,               \* DistributedDNSManager: role and configured parts
    records_file,         \* LocalUnboundManager.records_file, as its lines
    entries_to_add,       \* the lists the last prepare_dns_updates returned
    entries_to_remove,
    listing_raised,       \* whether the last container listing raised
    changed,              \* the value the last reconciliation returned
    log,                  \* the backend and peer calls of the last dispatch
    returned_after,       \* history: the absence a container just returned from
    removals_emitted,     \* history: removal entries emitted during that absence
    prior_ips,            \* history: the addresses the record of the last
                          \* add_record call carried before the call
    dns_manager,          \* the manager that is handed the batches
    rows,                 \* the host overrides OPNsense holds
    peer_files,           \* the records file of each peer of the master
    faults,               \* the faults the calls of the dispatch in progress met
    pc,                   \* where each thread is in its process_batch_changes
    current_records,      \* add_record's current_records, of each thread
    batch,                \* the entry each thread is adding
    host_name,            \* DNSManager.host_name
    cleanup_run,          \* the cleanup_dns_records call that just returned
    since_sync,           \* listen_for_events: time.time() - last_sync_time
    since_cleanup,        \* listen_for_events: time.time() - last_cleanup_time
    changes_detected,     \* listen_for_events: changes_detected
    event,                \* the event the Docker stream has delivered, if any
    listener,             \* where listen_for_events is, and the frames of it
                          \* that wait inside their try block
    cache,                \* DNSCache.cache
    now,                  \* time.time()
    calls,                \* the DNSCache call each thread is in
    latest,               \* history: the value of the last set of each key
    request,              \* the POST the replication server last received
    response,             \* the status code it answered with
    flannel_network,      \* ContainerMonitor.flannel_network
    cleanup_cycles,       \* ContainerNetworkState.cleanup_cycles
    updates_since_restart, \* DNSManager.updates_since_restart
    last_reconfigure_time, \* DNSManager.last_reconfigure_time
    reload                \* history: the last reconfigure_unbound call

tracker_vars == <<cleanup_cycles, container_networks, previous_networks, gone_containers,
                  has_changes, changes>>
tracker_hist == <<absent_run, last_call>>
monitor_vars == <<config, records_file, entries_to_add, entries_to_remove,
                  listing_raised, changed, log, returned_after, removals_emitted,
                  prior_ips, dns_manager, rows, faults>>
\* What only the later specifications change.
thread_vars == <<pc, current_records, batch>>
cleanup_vars == <<host_name, cleanup_run>>
timer_vars == <<since_sync, since_cleanup, changes_detected, event, listener>>
cache_vars == <<cache, now, calls, latest>>
post_vars == <<request, response>>
reload_vars == <<updates_since_restart, last_reconfigure_time, reload>>
other_vars == <<peer_files, thread_vars, cleanup_vars, timer_vars, cache_vars,
                post_vars, reload_vars, flannel_network>>
vars == <<tracker_vars, tracker_hist, monitor_vars, other_vars>>

(***************************************************************************)
(* ContainerNetworkState                                                   *)
(***************************************************************************)

\* _track_gone_containers: the gone table after a cycle whose previous
\* snapshot is prev and whose new snapshot is new_networks.
\* A mutant of _track_gone_containers: a counter is dropped only once it
\* has passed cleanup_cycles.
track_gone_containers_drops_late(gone, prev, new_networks) ==
    LET current_containers == DOMAIN new_networks
        previous_containers == DOMAIN prev
        newly_gone == previous_containers \ current_containers
        still_gone == {c \in DOMAIN gone :
                          c \notin current_containers
                          /\ ~(gone[c] + 1 > cleanup_cycles)}
    IN [c \in still_gone \cup newly_gone |->
           IF c \in newly_gone THEN 1 ELSE gone[c] + 1]

track_gone_containers(gone, prev, new_networks) ==
    LET current_containers == DOMAIN new_networks
        previous_containers == DOMAIN prev
        newly_gone == previous_containers \ current_containers
        still_gone == {c \in DOMAIN gone :
                          c \notin current_containers
                          /\ ~(gone[c] + 1 >= cleanup_cycles)}
    IN [c \in still_gone \cup newly_gone |->
           IF c \in newly_gone THEN 1 ELSE gone[c] + 1]

\* _has_real_changes, on the current and the previous snapshot.
\* A mutant of _has_real_changes: the addresses are not compared.
has_real_changes_ignores_ips(cur, prev) ==
    \/ DOMAIN cur /= DOMAIN prev
    \/ \E c \in DOMAIN cur :
          \/ c \notin DOMAIN prev
          \/ DOMAIN cur[c] /= DOMAIN prev[c]

has_real_changes(cur, prev) ==
    \/ DOMAIN cur /= DOMAIN prev
    \/ \E c \in DOMAIN cur :
          \/ c \notin DOMAIN prev
          \/ DOMAIN cur[c] /= DOMAIN prev[c]
          \/ \E n \in DOMAIN cur[c] :
                n \in DOMAIN prev[c] /\ cur[c][n] /= prev[c][n]

\* A mutant of get_changes: an IP change on a kept network is not reported.
get_changes_no_ip_change(cur, prev) ==
    [added_containers |-> DOMAIN cur \ DOMAIN prev,
     removed_containers |-> DOMAIN prev \ DOMAIN cur,
     network_changes |->
        [c \in {x \in DOMAIN cur \cap DOMAIN prev : cur[x] /= prev[x]} |->
            [added |-> [n \in {m \in DOMAIN cur[c] : m \notin DOMAIN prev[c]}
                           |-> cur[c][n]],
             removed |-> [n \in {m \in DOMAIN prev[c] : m \notin DOMAIN cur[c]}
                           |-> prev[c][n]]]]]

\* A mutant of get_changes: every container missing from the current snapshot
\* is reported as removed, in each cycle of its absence.
get_changes_removed_while_absent(cur, prev) ==
    [added_containers |-> DOMAIN cur \ DOMAIN prev,
     removed_containers |-> Containers \ DOMAIN cur,
     network_changes |->
        [c \in {x \in DOMAIN cur \cap DOMAIN prev : cur[x] /= prev[x]} |->
            [added |-> [n \in {m \in DOMAIN cur[c] :
                                  m \notin DOMAIN prev[c] \/ prev[c][m] /= cur[c][m]}
                           |-> cur[c][n]],
             removed |-> [n \in {m \in DOMAIN prev[c] : m \notin DOMAIN cur[c]}
                           |-> prev[c][n]]]]]

\* A mutant of get_changes: the containers whose network map did not change
\* are not skipped.
get_changes_keeps_unchanged(cur, prev) ==
    [added_containers |-> DOMAIN cur \ DOMAIN prev,
     removed_containers |-> DOMAIN prev \ DOMAIN cur,
     network_changes |->
        [c \in DOMAIN cur \cap DOMAIN prev |->
            [added |-> [n \in {m \in DOMAIN cur[c] :
                                  m \notin DOMAIN prev[c] \/ prev[c][m] /= cur[c][m]}
                           |-> cur[c][n]],
             removed |-> [n \in {m \in DOMAIN prev[c] : m \notin DOMAIN cur[c]}
                           |-> prev[c][n]]]]]

\* get_changes, on the current and the previous snapshot.  The two lists are
\* built from Python sets: their order is chosen where they are iterated.
get_changes(cur, prev) ==
    [added_containers |-> DOMAIN cur \ DOMAIN prev,
     removed_containers |-> DOMAIN prev \ DOMAIN cur,
     network_changes |->
        [c \in {x \in DOMAIN cur \cap DOMAIN prev : cur[x] /= prev[x]} |->
            [added |-> [n \in {m \in DOMAIN cur[c] :
                                  m \notin DOMAIN prev[c] \/ prev[c][m] /= cur[c][m]}
                           |-> cur[c][n]],
             removed |-> [n \in {m \in DOMAIN prev[c] : m \notin DOMAIN cur[c]}
                           |-> prev[c][n]]]]]

NoChanges ==
    [added_containers |-> {}, removed_containers |-> {},
     network_changes |-> EmptyDict]

\* History: the length of each container's current absence after a cycle
\* that delivered new_networks.
NextAbsentRun(run, cur, new_networks) ==
    [c \in Containers |->
        IF c \in DOMAIN new_networks THEN 0
        ELSE IF c \in DOMAIN cur \/ run[c] > 0
             THEN (IF run[c] < MaxRun THEN run[c] + 1 ELSE MaxRun)
             ELSE 0]

\* A mutant of update_state(None): None is taken for an empty snapshot.
update_state_None_as_empty ==
    /\ previous_networks' = container_networks
    /\ container_networks' = EmptyDict
    /\ gone_containers' =
          [c \in DOMAIN container_networks |-> 1]
    /\ has_changes' = (container_networks /= EmptyDict)
    /\ last_call' = "None"
    /\ UNCHANGED <<changes, absent_run, cleanup_cycles>>

\* update_state(None): logged and refused.
update_state_None ==
    /\ has_changes' = FALSE
    /\ last_call' = "None"
    /\ UNCHANGED <<container_networks, previous_networks, gone_containers,
                   changes, absent_run, cleanup_cycles>>

\* update_state(new_networks) for a dict, followed by get_changes().
update_state(new_networks) ==
    /\ previous_networks' = container_networks
    /\ container_networks' = new_networks
    /\ gone_containers' =
          track_gone_containers(gone_containers, container_networks, new_networks)
    /\ has_changes' = has_real_changes(new_networks, container_networks)
    /\ changes' = get_changes(new_networks, container_networks)
    /\ absent_run' = NextAbsentRun(absent_run, container_networks, new_networks)
    /\ last_call' = IF new_networks = EmptyDict THEN "empty" ELSE "dict"
    /\ UNCHANGED cleanup_cycles

\* ContainerNetworkState.__init__, whatever cleanup_cycles it is given.
TrackerFieldsInit ==
    /\ container_networks = EmptyDict
    /\ previous_networks = EmptyDict
    /\ gone_containers = EmptyDict
    /\ has_changes = FALSE
    /\ changes = NoChanges
    /\ absent_run = [c \in Containers |-> 0]
    /\ last_call = "init"

TrackerInit == TrackerFieldsInit /\ cleanup_cycles = default_cleanup_cycles


(***************************************************************************)
(* Strings                                                                 *)
(***************************************************************************)
\* Python's None where a string is expected (no string has this shape).
None == <<"<None>">>

\* not s, for a str-or-None
Falsy(s) == s = None \/ s = <<>>

Dot == <<".">>

\* s.startswith(p)
startswith(s, p) == Len(p) <= Len(s) /\ SubSeq(s, 1, Len(p)) = p

\* s.endswith(p)
endswith(s, p) == Len(p) <= Len(s) /\ SubSeq(s, Len(s) - Len(p) + 1, Len(s)) = p

\* The characters of [a-zA-Z0-9\-]
NameChars ==
    {"a", "b", "c", "d", "e", "f", "g", "h", "i", "j", "k", "l", "m", "n", "o",
     "p", "q", "r", "s", "t", "u", "v", "w", "x", "y", "z",
     "A", "B", "C", "D", "E", "F", "G", "H", "I", "J", "K", "L", "M", "N", "O",
     "P", "Q", "R", "S", "T", "U", "V", "W", "X", "Y", "Z",
     "0", "1", "2", "3", "4", "5", "6", "7", "8", "9", "-"}

\* ['_net', '-net', '_default', '-default']
Suffixes ==
    << <<"_", "n", "e", "t">>, <<"-", "n", "e", "t">>,
       <<"_", "d", "e", "f", "a", "u", "l", "t">>,
       <<"-", "d", "e", "f", "a", "u", "l", "t">> >>

\* The loop that removes the first suffix that matches, and stops.
StripSuffix(s) ==
    IF \E i \in 1..Len(Suffixes) : endswith(s, Suffixes[i])
    THEN LET i == CHOOSE j \in 1..Len(Suffixes) :
                     /\ endswith(s, Suffixes[j])
                     /\ \A k \in 1..(j - 1) : ~endswith(s, Suffixes[k])
         IN SubSeq(s, 1, Len(s) - Len(Suffixes[i]))
    ELSE s

\* re.sub(r'[^a-zA-Z0-9\-]', '-', s)
ReplaceInvalid(s) == [i \in 1..Len(s) |-> IF s[i] \in NameChars THEN s[i] ELSE "-"]

\* re.sub(r'-+', '-', s)
RECURSIVE CollapseHyphens(_)
CollapseHyphens(s) ==
    IF Len(s) <= 1 THEN s
    ELSE IF s[1] = "-" /\ s[2] = "-" THEN CollapseHyphens(Tail(s))
    ELSE <<s[1]>> \o CollapseHyphens(Tail(s))

\* s.strip('-')
RECURSIVE StripHyphens(_)
StripHyphens(s) ==
    IF s = <<>> THEN s
    ELSE IF s[1] = "-" THEN StripHyphens(Tail(s))
    ELSE IF s[Len(s)] = "-" THEN StripHyphens(SubSeq(s, 1, Len(s) - 1))
    ELSE s

\* DistributedDNSManager._sanitize_network_name
sanitize_network_name_distributed(network_name) ==
    IF Falsy(network_name) THEN network
    ELSE LET r == StripHyphens(CollapseHyphens(ReplaceInvalid(StripSuffix(network_name))))
         IN IF r = <<>> THEN network ELSE r

\* f"{sanitized_network}.docker.local"
SubDomain(label) == label \o Dot \o docker_local

(***************************************************************************)
(* LocalUnboundManager: the records file is the list of its lines.  A      *)
(* record line  local-data: "<name>. IN A <ip>"  keeps its name and ip.    *)
(***************************************************************************)
CommentLine == [kind |-> "comment", name |-> <<>>, ip |-> ""]
BlankLine == [kind |-> "blank", name |-> <<>>, ip |-> ""]

\* _write_header
Header == <<CommentLine, CommentLine, CommentLine, BlankLine>>

\* f'local-data: "{hostname}.{domain}. IN A {ip}"'
RecordLine(hostname, domain, ip) ==
    [kind |-> "data", name |-> hostname \o Dot \o domain, ip |-> ip]

\* line.strip().startswith(f'local-data: "{hostname}.{domain}.'): what
\* follows the opening quote of a record line is its name and ". IN A".
MatchesRecord(line, hostname, domain) ==
    /\ line.kind = "data"
    /\ startswith(line.name \o <<".", " ">>, hostname \o Dot \o domain \o Dot)

\* line.strip().startswith('local-data: "') and f'"{hostname}.' in line:
\* the only quote followed by a name is the opening one.
MatchesHostname(line, hostname) ==
    /\ line.kind = "data"
    /\ startswith(line.name \o <<".", " ">>, hostname \o Dot)

\* A mutant of add_record: the line is appended without dropping the old
\* line of the same name.
add_record_append_only(lines, hostname, ip, domain) ==
    Append(lines, RecordLine(hostname, domain, ip))

\* add_record, when no I/O fails: the lines written back.
add_record(lines, hostname, ip, domain) ==
    LET filtered_records == SelectSeq(lines, LAMBDA l : ~MatchesRecord(l, hostname, domain))
    IN Append(filtered_records, RecordLine(hostname, domain, ip))

\* remove_record, when no I/O fails.
remove_record(lines, hostname, domain) ==
    SelectSeq(lines, LAMBDA l : ~MatchesRecord(l, hostname, domain))

\* remove_all_records, when no I/O fails.
remove_all_records(lines, hostname) ==
    SelectSeq(lines, LAMBDA l : ~MatchesHostname(l, hostname))


(***************************************************************************)
(* ContainerMonitor                                                        *)
(***************************************************************************)
\* The orders in which a Python set or dict of these keys can be iterated.
Perms(S) ==
    {p \in [1..Cardinality(S) -> S] : \A i, j \in 1..Cardinality(S) : p[i] = p[j] => i = j}

\* The keys of S in the iteration order `order`.
SeqOf(S, order) == SelectSeq(order, LAMBDA x : x \in S)

\* The concatenation of F(x) for the x of a list, in order.
FlatMap(xs, F(_)) ==
    LET RECURSIVE G(_)
        G(s) == IF s = <<>> THEN <<>> ELSE F(s[1]) \o G(Tail(s))
    IN G(xs)

\* is_flannel_ip: False when no flannel network was detected, and
\* otherwise whether the address lies in the network.
is_flannel_ip(ip) ==
    IF flannel_network = NoFlannel THEN FALSE ELSE ip \in FlannelIPs

\* get_container_networks: `listed` is the dict the loop over
\* docker_client.containers.list() had built when it ended; an exception
\* raised by the listing or inside the loop is logged and the dict built so
\* far is returned all the same.
get_container_networks(listed, raised) == listed

\* The entries prepare_dns_updates makes of one {network: ip} dict: one per
\* network, followed by a 'flannel' entry when the ip is a flannel ip.
NetEntries(container, nets, norder) ==
    FlatMap(SeqOf(DOMAIN nets, norder),
            LAMBDA n :
               <<[hostname |-> container, ip |-> nets[n], network_name |-> n]>>
               \o (IF is_flannel_ip(nets[n])
                   THEN <<[hostname |-> container, ip |-> nets[n],
                           network_name |-> flannel]>>
                   ELSE <<>>))

\* A mutant of prepare_dns_updates: a container that disappeared gets no
\* removal entry (its removal is held back).
prepare_dns_updates_holds_removals(new_networks, has, ch, corder, norder) ==
    IF ~has THEN <<<<>>, <<>>>>
    ELSE
    LET modified == SeqOf(DOMAIN ch.network_changes, corder)
        added == FlatMap(SeqOf(ch.added_containers, corder),
                         LAMBDA c : IF c \notin DOMAIN new_networks THEN <<>>
                                    ELSE NetEntries(c, new_networks[c], norder))
        net_added == FlatMap(modified,
                             LAMBDA c : NetEntries(c, ch.network_changes[c].added, norder))
        net_removed == FlatMap(modified,
                               LAMBDA c : NetEntries(c, ch.network_changes[c].removed, norder))
    IN <<added \o net_added, net_removed>>

\* prepare_dns_updates after update_state returned has and get_changes
\* returned ch: <<entries_to_add, entries_to_remove>>.
prepare_dns_updates(new_networks, has, ch, corder, norder) ==
    IF ~has THEN <<<<>>, <<>>>>
    ELSE
    LET modified == SeqOf(DOMAIN ch.network_changes, corder)
        added == FlatMap(SeqOf(ch.added_containers, corder),
                         LAMBDA c : IF c \notin DOMAIN new_networks THEN <<>>
                                    ELSE NetEntries(c, new_networks[c], norder))
        removed == FlatMap(SeqOf(ch.removed_containers, corder),
                           LAMBDA c : <<[hostname |-> c]>>)
        net_added == FlatMap(modified,
                             LAMBDA c : NetEntries(c, ch.network_changes[c].added, norder))
        net_removed == FlatMap(modified,
                               LAMBDA c : NetEntries(c, ch.network_changes[c].removed, norder))
    IN <<added \o net_added, removed \o net_removed>>

\* entry.get(key): None when the entry has no such key.
Get(entry, key) == IF key \in DOMAIN entry THEN entry[key] ELSE None


\* not entry.get('ip')
NoIp(entry) == "ip" \notin DOMAIN entry \/ entry.ip = ""

(***************************************************************************)
(* I/O outcomes.  A fault plan says which file operations of one dispatch  *)
(* raise (the at-th one, or every one from the at-th on) and where:        *)
(* "read_error" before the file is opened for writing (the file is left as *)
(* it was), "write_error" after open(..., 'w') truncated it; and whether   *)
(* the reload and the peer's HTTP endpoint succeed.                        *)
(***************************************************************************)
MaxFaultAt == 3

\* F(v) with v computed once, as a local variable holds the value of a call.
With(v, F(_)) == CHOOSE r \in {F(x) : x \in {v}} : TRUE

\* The peers of the master: DNSReplicationClient.remote_hosts, in the order
\* of the dict.
peer1 == "peer1"
peer2 == "peer2"
remote_hosts == <<peer1, peer2>>

\* peers_down: the peers whose endpoint does not answer 200.
NoFaults == [at |-> 0, mode |-> "read_error", lasting |-> FALSE,
             reload_ok |-> TRUE, peers_down |-> {}]

FaultPlans ==
    {NoFaults, [NoFaults EXCEPT !.reload_ok = FALSE]}
    \cup {[NoFaults EXCEPT !.peers_down = d] : d \in {{peer1}, {peer2}, {peer1, peer2}}}
    \cup [at : 1..MaxFaultAt, mode : {"read_error", "write_error"},
          lasting : BOOLEAN, reload_ok : BOOLEAN, peers_down : {{}}]

FaultAt(plan, i) ==
    IF plan.at = 0 THEN "ok"
    ELSE IF i = plan.at \/ (plan.lasting /\ i > plan.at) THEN plan.mode
    ELSE "ok"

\* An event of the dispatch log: a call, its arguments, the value it
\* returned and whether it rewrote the records file.
Event(ev, hostname, domain, ip, ok, wrote) ==
    [ev |-> ev, hostname |-> hostname, domain |-> domain, ip |-> ip, ok |-> ok,
     wrote |-> wrote]

FileEvents == {"add_record", "remove_record", "remove_all_records"}

\* The state a dispatch threads through its calls: the records file, the
\* log of the calls made so far, the number of file operations so far and
\* the result of the last call.
Acc(file, lg, n, ok) ==
    [file |-> file, log |-> lg, n |-> n, ok |-> ok, rows |-> <<>>]

\* The state at the start of a dispatch that may reach OPNsense as well.
AccWithRows(file, rows_) == [Acc(file, <<>>, 0, FALSE) EXCEPT !.rows = rows_]

\* One call of add_record / remove_record / remove_all_records, with its
\* try/except: the file afterwards and the boolean returned.
FileCall(acc, ev, hostname, domain, ip, plan) ==
    LET fault == FaultAt(plan, acc.n + 1)
    IN With(CASE ev = "add_record" -> add_record(acc.file, hostname, ip, domain)
              [] ev = "remove_record" -> remove_record(acc.file, hostname, domain)
              [] ev = "remove_all_records" -> remove_all_records(acc.file, hostname),
            LAMBDA filtered_records :
              LET \* remove_* write back only "if changed"
                  writes == ev = "add_record" \/ Len(filtered_records) /= Len(acc.file)
                  ok == fault = "ok" \/ (fault = "write_error" /\ ~writes)
                  file == IF ok THEN filtered_records
                          ELSE IF fault = "write_error" THEN <<>>
                          ELSE acc.file
              IN Acc(file,
                     Append(acc.log, Event(ev, hostname, domain, ip, ok, ok /\ writes)),
                     acc.n + 1, ok))

(***************************************************************************)
(* DistributedDNSManager.  cfg is what the constructor kept of its config: *)
(* role, local_unbound, replication_client and api_client (the last three  *)
(* as booleans: configured or None).                                       *)
(***************************************************************************)
\* The calls of one entry, all made, success = the conjunction.
RECURSIVE FileCalls(_, _, _, _, _, _, _)
FileCalls(acc, ev, hostname, domains, ip, plan, success) ==
    IF domains = <<>> THEN [acc EXCEPT !.ok = success]
    ELSE With(FileCall(acc, ev, hostname, domains[1], ip, plan),
              LAMBDA a : FileCalls(a, ev, hostname, Tail(domains), ip, plan,
                                   success /\ a.ok))

\* _add_record_no_reload
add_record_no_reload(acc, container_name, ip, network_name, plan, cfg) ==
    LET domains == <<docker_local>>
                   \o (IF ~Falsy(network_name) /\ network_name /= bridge
                       THEN <<SubDomain(sanitize_network_name_distributed(network_name))>>
                       ELSE <<>>)
    IN IF cfg.local_unbound
       THEN FileCalls(acc, "add_record", container_name, domains, ip, plan, TRUE)
       ELSE [acc EXCEPT !.ok = TRUE]

\* _remove_record_no_reload
remove_record_no_reload(acc, container_name, network_name, plan, cfg) ==
    IF cfg.local_unbound
    THEN IF ~Falsy(network_name)
         THEN FileCalls(acc, "remove_record", container_name,
                        <<docker_local,
                          SubDomain(sanitize_network_name_distributed(network_name))>>,
                        "", plan, TRUE)
         ELSE FileCall(acc, "remove_all_records", container_name, <<>>, "", plan)
    ELSE [acc EXCEPT !.ok = TRUE]

\* The two loops of process_batch_changes; ok becomes changes_made.
RECURSIVE RemovalLoop(_, _, _, _, _)
RemovalLoop(acc, entries, plan, cfg, changes_made) ==
    IF entries = <<>> THEN [acc EXCEPT !.ok = changes_made]
    ELSE LET entry == entries[1]
             hostname == Get(entry, "hostname")
         IN IF Falsy(hostname)
            THEN RemovalLoop(acc, Tail(entries), plan, cfg, changes_made)
            ELSE With(remove_record_no_reload(acc, hostname,
                                              Get(entry, "network_name"), plan, cfg),
                      LAMBDA a : RemovalLoop(a, Tail(entries), plan, cfg,
                                             changes_made \/ a.ok))

RECURSIVE AdditionLoop(_, _, _, _, _)
AdditionLoop(acc, entries, plan, cfg, changes_made) ==
    IF entries = <<>> THEN [acc EXCEPT !.ok = changes_made]
    ELSE LET entry == entries[1]
             hostname == Get(entry, "hostname")
         IN IF Falsy(hostname) \/ NoIp(entry)
            THEN AdditionLoop(acc, Tail(entries), plan, cfg, changes_made)
            ELSE With(add_record_no_reload(acc, hostname, entry.ip,
                                           Get(entry, "network_name"), plan, cfg),
                      LAMBDA a : AdditionLoop(a, Tail(entries), plan, cfg,
                                              changes_made \/ a.ok))

\* reload_unbound, as one logged call.
reload_unbound(acc, plan) ==
    [acc EXCEPT !.log = Append(acc.log, Event("reload_unbound", <<>>, <<>>, "",
                                                   plan.reload_ok, FALSE)),
                !.ok = plan.reload_ok]

\* A POST of replicate_record: the action, the peer it went to, its JSON
\* body (hostname, domain and, when truthy, ip) and whether the answer was
\* 200, which is results[host_name].
Post(ev, peer, hostname, domain, ip, ok) ==
    [ev |-> ev, peer |-> peer, hostname |-> hostname, domain |-> domain, ip |-> ip,
     ok |-> ok, wrote |-> FALSE]

\* A mutant of replicate_record: the loop stops at the first host that does
\* not answer 200.
replicate_record_stops_at_failure(ev, hostname, ip, domain, hosts, plan) ==
    LET reached == {i \in DOMAIN hosts :
                      \A j \in 1..(i - 1) : hosts[j] \notin plan.peers_down}
    IN [i \in 1..Cardinality(reached) |->
           Post(ev, hosts[i], hostname, domain, ip, hosts[i] \notin plan.peers_down)]

\* DNSReplicationClient.replicate_record: one POST to each of hosts, in
\* order; an exception or a status other than 200 gives False for that host
\* and the loop goes on.
replicate_record(ev, hostname, ip, domain, hosts, plan) ==
    [i \in DOMAIN hosts |->
        Post(ev, hosts[i], hostname, domain, ip, hosts[i] \notin plan.peers_down)]

\* _replicate_batch_changes: replicate_record for each mutation, with the
\* default domain.
replicate_batch_changes(acc, to_add, to_remove, plan, cfg) ==
    LET removals == FlatMap(to_remove,
                       LAMBDA e : IF Falsy(Get(e, "hostname")) THEN <<>>
                                  ELSE replicate_record("post_remove", e.hostname, "",
                                                        docker_local, cfg.remote_hosts,
                                                        plan))
        additions == FlatMap(to_add,
                       LAMBDA e : IF Falsy(Get(e, "hostname")) \/ NoIp(e) THEN <<>>
                                  ELSE replicate_record("post_add", e.hostname, e.ip,
                                                        docker_local, cfg.remote_hosts,
                                                        plan))
    IN [acc EXCEPT !.log = acc.log \o removals \o additions]

(***************************************************************************)
(* DNSManager: the REST backend.  rows are the host overrides OPNsense     *)
(* holds, in the order searchHostOverride lists them; `ours` says that the *)
(* description names this host.  A dispatch threads the rows, its          *)
(* all_dns_entries dict (kept as the list of its records), the log of its  *)
(* POSTs and the result of the last call.                                  *)
(***************************************************************************)
\* re.sub(r'[^a-zA-Z0-9\-]', '', s)
RemoveInvalid(s) == SelectSeq(s, LAMBDA ch : ch \in NameChars)

\* DNSManager.sanitize_network_name
sanitize_network_name(network_name) ==
    IF network_name = None THEN network
    ELSE LET r == RemoveInvalid(StripSuffix(network_name))
         IN IF r = <<>> THEN network ELSE r

\* DNSManager.get_domain_for_network
get_domain_for_network(network_name) ==
    IF network_name = None THEN docker_local
    ELSE IF network_name = flannel THEN SubDomain(flannel)
    ELSE SubDomain(sanitize_network_name(network_name))

\* How the OPNsense API answers during a dispatch: whether addHostOverride
\* succeeds, and the uuids whose delHostOverride does not answer "deleted".
ApiUp == [add_ok |-> TRUE, del_failing |-> {}]

RestAcc(rows_, all, lg, ok) ==
    [rows |-> rows_, all |-> all, log |-> lg, ok |-> ok, api |-> ApiUp]

\* The uuid OPNsense gives a new row: one no row carries.
FreshUuid(rows_) ==
    CHOOSE u \in 1..(Len(rows_) + 1) :
        /\ \A i \in DOMAIN rows_ : rows_[i].uuid /= u
        /\ \A v \in 1..(u - 1) : \E i \in DOMAIN rows_ : rows_[i].uuid = v

\* The placeholder uuid 'new' of the entries process_dns_changes appends.
NewUuid == 0

\* get_all_dns_entries(force_refresh=True): the records of the rows.
get_all_dns_entries(rows_) == rows_

\* _entry_exists
entry_exists(all, hostname, domain, ip) ==
    \E i \in DOMAIN all :
        all[i].hostname = hostname /\ all[i].domain = domain /\ all[i].ip = ip

\* remove_specific_dns(..., skip_reconfigure=True): a delHostOverride POST
\* deletes the row of that uuid; for a uuid no row carries the result is not
\* "deleted" and the POST is made max_retries + 1 times.
remove_specific_dns(racc, uuid, hostname, domain, ip) ==
    IF uuid \notin racc.api.del_failing /\ \E i \in DOMAIN racc.rows : racc.rows[i].uuid = uuid
    THEN [racc EXCEPT
            !.rows = SelectSeq(racc.rows, LAMBDA r : r.uuid /= uuid),
            !.log = Append(racc.log, Event("delHostOverride", hostname, domain, ip, TRUE, FALSE)),
            !.ok = TRUE]
    ELSE [racc EXCEPT
            !.log = racc.log \o [k \in 1..3 |->
                        Event("delHostOverride", hostname, domain, ip, FALSE, FALSE)],
            !.ok = FALSE]

\* The loop of remove_specific_dns calls over a list of entries; ok becomes
\* whether any call succeeded.
RECURSIVE RemoveEntries(_, _, _)
RemoveEntries(racc, entries, changes_made) ==
    IF entries = <<>> THEN [racc EXCEPT !.ok = changes_made]
    ELSE LET e == entries[1]
         IN With(remove_specific_dns(racc, e.uuid, e.hostname, e.domain, e.ip),
                 LAMBDA a : RemoveEntries(a, Tail(entries), changes_made \/ a.ok))

\* remove_dns(hostname, pre_fetched_entries=all)
remove_dns(racc, hostname) ==
    RemoveEntries(racc,
                  SelectSeq(racc.all, LAMBDA e : e.hostname = hostname /\ e.ours),
                  FALSE)

\* _clean_old_entries
clean_old_entries(racc, hostname, domain, new_ip) ==
    RemoveEntries(racc,
                  SelectSeq(racc.all, LAMBDA e : /\ e.hostname = hostname
                                                 /\ e.domain = domain
                                                 /\ e.ip /= new_ip),
                  FALSE)

\* update_dns(hostname, ip, network_name, pre_fetched_entries=all)
update_dns(racc, hostname, ip, network_name) ==
    With(get_domain_for_network(network_name), LAMBDA domain :
       IF entry_exists(racc.all, hostname, domain, ip)
       THEN [racc EXCEPT !.ok = FALSE]
       ELSE With(clean_old_entries(racc, hostname, domain, ip), LAMBDA cleaned :
            LET row == [uuid |-> FreshUuid(cleaned.rows), hostname |-> hostname,
                        domain |-> domain, ip |-> ip, ours |-> TRUE]
            IN IF ~cleaned.api.add_ok
               THEN [cleaned EXCEPT
                       !.log = Append(cleaned.log,
                                      Event("addHostOverride", hostname, domain, ip,
                                            FALSE, FALSE)),
                       !.ok = FALSE]
               ELSE
               [cleaned EXCEPT
                  !.rows = Append(cleaned.rows, row),
                  !.log = Append(cleaned.log,
                                 Event("addHostOverride", hostname, domain, ip, TRUE, FALSE)),
                  !.ok = TRUE]))

\* The removals loop of DNSManager.process_dns_changes.
RECURSIVE RestRemovalLoop(_, _, _)
RestRemovalLoop(racc, entries, changes_made) ==
    IF entries = <<>> THEN [racc EXCEPT !.ok = changes_made]
    ELSE
    LET entry == entries[1]
        hostname == Get(entry, "hostname")
    IN IF "ip" \notin DOMAIN entry /\ "network_name" \notin DOMAIN entry
       THEN With(remove_dns(racc, hostname), LAMBDA a :
            With(IF a.ok
                 THEN [a EXCEPT !.all = SelectSeq(a.all, LAMBDA e : e.hostname /= hostname)]
                 ELSE a,
                 LAMBDA b : RestRemovalLoop(b, Tail(entries), changes_made \/ a.ok)))
       ELSE With(get_domain_for_network(Get(entry, "network_name")), LAMBDA domain :
            With(SelectSeq(racc.all, LAMBDA e : /\ e.hostname = hostname
                                                /\ e.domain = domain
                                                /\ e.ip = entry.ip),
                 LAMBDA found :
            IF found = <<>>
            THEN RestRemovalLoop(racc, Tail(entries), changes_made)
            ELSE With(remove_specific_dns(racc, found[1].uuid, hostname,
                                          domain, entry.ip), LAMBDA a :
                 With(IF a.ok
                      THEN [a EXCEPT !.all = SelectSeq(a.all,
                                       LAMBDA e : e.uuid /= found[1].uuid)]
                      ELSE a,
                      LAMBDA b : RestRemovalLoop(b, Tail(entries),
                                                 changes_made \/ a.ok)))))

\* The additions loop of DNSManager.process_dns_changes.
RECURSIVE RestAdditionLoop(_, _, _)
RestAdditionLoop(racc, entries, changes_made) ==
    IF entries = <<>> THEN [racc EXCEPT !.ok = changes_made]
    ELSE
    LET entry == entries[1]
    IN With(get_domain_for_network(Get(entry, "network_name")), LAMBDA domain :
       IF entry_exists(racc.all, entry.hostname, domain, entry.ip)
       THEN RestAdditionLoop(racc, Tail(entries), changes_made)
       ELSE With(update_dns(racc, entry.hostname, entry.ip, Get(entry, "network_name")),
                 LAMBDA a :
            With(IF a.ok
                 THEN [a EXCEPT !.all = Append(a.all,
                                   [uuid |-> NewUuid, hostname |-> entry.hostname,
                                    domain |-> domain, ip |-> entry.ip,
                                    ours |-> TRUE])]
                 ELSE a,
                 LAMBDA b : RestAdditionLoop(b, Tail(entries), changes_made \/ a.ok))))

\* reconfigure_unbound, as one logged call.
reconfigure_unbound(racc) ==
    [racc EXCEPT !.log = Append(racc.log,
                                Event("reconfigure_unbound", <<>>, <<>>, "", TRUE, FALSE))]

\* DNSManager.process_dns_changes ending with a reconfigure_unbound call
\* whether or not a change was made.
rest_process_dns_changes_always_reconfigures(rows_, lg, to_add, to_remove, api) ==
    IF to_add = <<>> /\ to_remove = <<>>
    THEN RestAcc(rows_, <<>>, lg, FALSE)
    ELSE
    With([RestAcc(rows_, get_all_dns_entries(rows_), lg, FALSE) EXCEPT !.api = api],
         LAMBDA start :
    With(RestRemovalLoop(start, to_remove, FALSE), LAMBDA removed :
    With(RestAdditionLoop(removed, to_add, removed.ok), LAMBDA added :
    reconfigure_unbound(added))))

\* DNSManager.process_dns_changes: the rows and the log afterwards; ok is
\* the value returned.
rest_process_dns_changes(rows_, lg, to_add, to_remove, api) ==
    IF to_add = <<>> /\ to_remove = <<>>
    THEN RestAcc(rows_, <<>>, lg, FALSE)
    ELSE
    With([RestAcc(rows_, get_all_dns_entries(rows_), lg, FALSE) EXCEPT !.api = api],
         LAMBDA start :
    With(RestRemovalLoop(start, to_remove, FALSE), LAMBDA removed :
    With(RestAdditionLoop(removed, to_add, removed.ok), LAMBDA added :
    IF added.ok THEN reconfigure_unbound(added) ELSE added)))

(***************************************************************************)
(* DistributedDNSManager.process_batch_changes, with its replication and   *)
(* its OPNsense fallback.                                                  *)
(***************************************************************************)
critical_prefixes ==
    <<<<"c", "a", "d", "d", "y", "-", "p", "u", "b", "l", "i", "c">>,
      <<"s", "m", "t", "p", "-", "p", "r", "o", "x", "y">>,
      <<"t", "r", "a", "e", "f", "i", "k">>,
      <<"n", "g", "i", "n", "x", "-", "p", "r", "o", "x", "y">>>>

\* _is_critical_record
is_critical_record(container_name) ==
    \E i \in DOMAIN critical_prefixes : startswith(container_name, critical_prefixes[i])

\* _handle_opnsense_fallback: the critical entries of the batch go through
\* DNSManager.process_dns_changes, whose result is dropped.
handle_opnsense_fallback(acc, to_add, to_remove) ==
    LET critical_changes ==
            \E i \in DOMAIN (to_add \o to_remove) :
                LET hostname == Get((to_add \o to_remove)[i], "hostname")
                IN ~Falsy(hostname) /\ is_critical_record(hostname)
        critical_adds == SelectSeq(to_add, LAMBDA e : is_critical_record(e.hostname))
        critical_removes == SelectSeq(to_remove, LAMBDA e : is_critical_record(e.hostname))
    IN IF critical_changes /\ (critical_adds /= <<>> \/ critical_removes /= <<>>)
       THEN With(rest_process_dns_changes(acc.rows, acc.log, critical_adds,
                                          critical_removes, ApiUp),
                 LAMBDA r : [acc EXCEPT !.rows = r.rows, !.log = r.log])
       ELSE acc

\* A mutant of process_batch_changes: the additions are made before the
\* removals.
process_batch_changes_adds_first(acc, to_add, to_remove, plan, cfg) ==
    IF to_add = <<>> /\ to_remove = <<>>
    THEN [acc EXCEPT !.ok = FALSE]
    ELSE
    With(AdditionLoop(acc, to_add, plan, cfg, FALSE), LAMBDA added :
    With(RemovalLoop(added, to_remove, plan, cfg, added.ok), LAMBDA removed :
    With(IF removed.ok /\ cfg.local_unbound THEN reload_unbound(removed, plan) ELSE removed,
         LAMBDA reloaded :
    With(IF reloaded.ok /\ cfg.role = "master" /\ cfg.replication_client
         THEN [replicate_batch_changes(reloaded, to_add, to_remove, plan, cfg)
                  EXCEPT !.ok = reloaded.ok]
         ELSE reloaded,
         LAMBDA replicated :
    IF replicated.ok /\ cfg.api_client
    THEN [handle_opnsense_fallback(replicated, to_add, to_remove)
             EXCEPT !.ok = replicated.ok]
    ELSE replicated))))

\* process_batch_changes: the file and log afterwards; ok is the value
\* returned.
process_batch_changes(acc, to_add, to_remove, plan, cfg) ==
    IF to_add = <<>> /\ to_remove = <<>>
    THEN [acc EXCEPT !.ok = FALSE]
    ELSE
    With(RemovalLoop(acc, to_remove, plan, cfg, FALSE), LAMBDA removed :
    With(AdditionLoop(removed, to_add, plan, cfg, removed.ok), LAMBDA added :
    With(IF added.ok /\ cfg.local_unbound THEN reload_unbound(added, plan) ELSE added,
         LAMBDA reloaded :
    With(IF reloaded.ok /\ cfg.role = "master" /\ cfg.replication_client
         THEN [replicate_batch_changes(reloaded, to_add, to_remove, plan, cfg)
                  EXCEPT !.ok = reloaded.ok]
         ELSE reloaded,
         LAMBDA replicated :
    IF replicated.ok /\ cfg.api_client
    THEN [handle_opnsense_fallback(replicated, to_add, to_remove)
             EXCEPT !.ok = replicated.ok]
    ELSE replicated))))

\* add_container_record: a batch of one addition.
add_container_record(acc, container_name, ip, network_name, plan, cfg) ==
    process_batch_changes(acc,
                          <<[hostname |-> container_name, ip |-> ip,
                             network_name |-> network_name]>>,
                          <<>>, plan, cfg)

\* remove_container_record: a batch of one removal.
remove_container_record(acc, container_name, network_name, plan, cfg) ==
    process_batch_changes(acc, <<>>,
                          <<[hostname |-> container_name,
                             network_name |-> network_name]>>,
                          plan, cfg)

\* The DistributedDNSManager of a peer: a client with a local Unbound.
PeerConfig == [role |-> "client", local_unbound |-> TRUE,
               replication_client |-> FALSE, remote_hosts |-> <<>>,
               api_client |-> FALSE]

\* DNSReplicationHandler._process_dns_action on a peer whose file calls and
\* reload succeed: the body of the POSTs of replicate_record has no
\* 'network_name' key, so data.get('network_name') is None.
process_dns_action(file, post) ==
    LET acc == Acc(file, <<>>, 0, FALSE)
        network_name == None
    IN IF Falsy(post.hostname) THEN [acc EXCEPT !.ok = FALSE]
       ELSE IF post.ev = "post_add"
       THEN IF post.ip = "" THEN [acc EXCEPT !.ok = FALSE]
            ELSE add_container_record(acc, post.hostname, post.ip, network_name,
                                      NoFaults, PeerConfig)
       ELSE IF post.ev = "post_remove"
       THEN remove_container_record(acc, post.hostname, network_name,
                                    NoFaults, PeerConfig)
       ELSE [acc EXCEPT !.ok = FALSE]

\* The file of peer after it handled, in order, the POSTs of a log that
\* reached it.
RECURSIVE Deliver(_, _, _)
Deliver(file, lg, peer) ==
    IF lg = <<>> THEN file
    ELSE With(IF lg[1].ev \in {"post_add", "post_remove"} /\ lg[1].peer = peer /\ lg[1].ok
              THEN process_dns_action(file, lg[1]).file
              ELSE file,
              LAMBDA f : Deliver(f, Tail(lg), peer))


(***************************************************************************)
(* HybridDNSManager.  hyb says whether distributed_dns and api_dns_manager *)
(* are set.                                                                *)
(***************************************************************************)
\* The removals loop of _process_changes_distributed: one
\* remove_container_record, a batch of its own, per entry.
RECURSIVE HybridRemovalLoop(_, _, _, _, _)
HybridRemovalLoop(acc, entries, plan, cfg, changes_made) ==
    IF entries = <<>> THEN [acc EXCEPT !.ok = changes_made]
    ELSE LET entry == entries[1]
             hostname == Get(entry, "hostname")
         IN IF Falsy(hostname)
            THEN HybridRemovalLoop(acc, Tail(entries), plan, cfg, changes_made)
            ELSE With(process_batch_changes(
                          acc, <<>>,
                          <<[hostname |-> hostname,
                             network_name |-> Get(entry, "network_name")]>>,
                          plan, cfg),
                      LAMBDA a : HybridRemovalLoop(a, Tail(entries), plan, cfg,
                                                   changes_made \/ a.ok))

\* The additions loop of _process_changes_distributed: one
\* add_container_record, a batch of its own, per entry.
RECURSIVE HybridAdditionLoop(_, _, _, _, _)
HybridAdditionLoop(acc, entries, plan, cfg, changes_made) ==
    IF entries = <<>> THEN [acc EXCEPT !.ok = changes_made]
    ELSE LET entry == entries[1]
             hostname == Get(entry, "hostname")
         IN IF Falsy(hostname) \/ NoIp(entry)
            THEN HybridAdditionLoop(acc, Tail(entries), plan, cfg, changes_made)
            ELSE With(process_batch_changes(
                          acc,
                          <<[hostname |-> hostname, ip |-> entry.ip,
                             network_name |-> Get(entry, "network_name")]>>,
                          <<>>, plan, cfg),
                      LAMBDA a : HybridAdditionLoop(a, Tail(entries), plan, cfg,
                                                    changes_made \/ a.ok))

\* _process_changes_distributed
process_changes_distributed(acc, to_add, to_remove, plan, cfg) ==
    With(HybridRemovalLoop(acc, to_remove, plan, cfg, FALSE), LAMBDA removed :
         HybridAdditionLoop(removed, to_add, plan, cfg, removed.ok))

\* HybridDNSManager.process_dns_changes: the file, the rows and the log
\* afterwards, and the value returned.
hybrid_process_dns_changes(file, rows_, to_add, to_remove, plan, cfg, hyb) ==
    IF to_add = <<>> /\ to_remove = <<>>
    THEN [file |-> file, rows |-> rows_, log |-> <<>>, ok |-> FALSE]
    ELSE
    With(IF hyb.distributed_dns
         THEN process_changes_distributed(AccWithRows(file, rows_),
                                          to_add, to_remove, plan, cfg)
         ELSE AccWithRows(file, rows_),
         LAMBDA dist :
    With(IF ~dist.ok /\ hyb.api_dns_manager
         THEN rest_process_dns_changes(dist.rows, dist.log, to_add, to_remove, ApiUp)
         ELSE RestAcc(dist.rows, <<>>, dist.log, dist.ok),
         LAMBDA api :
    [file |-> dist.file, rows |-> api.rows, log |-> api.log, ok |-> api.ok]))

(***************************************************************************)
(* Reconciliation: ContainerMonitor.sync_dns_entries                       *)
(***************************************************************************)
\* The {network: ip} dicts a listing reports for a container: bridge with
\* its one address, app_net with either address.
ReconcileMaps ==
    [c \in Containers |->
        IF c = web
        THEN {m \in NetMapsOver(Networks) : bridge \in DOMAIN m => m[bridge] = "10.0.0.2"}
        ELSE {m \in NetMapsOver({bridge}) : m /= EmptyDict /\ m[bridge] = "10.0.0.2"}]

\* The snapshots the container listing delivers to a reconciliation.
ReconcileSnapshots == SnapshotsOf(ReconcileMaps)

\* The number of entries of a list that name the container.
RECURSIVE CountFor(_, _)
CountFor(entries, c) ==
    IF entries = <<>> THEN 0
    ELSE (IF entries[1].hostname = c THEN 1 ELSE 0) + CountFor(Tail(entries), c)

Min(a, b) == IF a < b THEN a ELSE b

\* The pairs <<entries_to_add, entries_to_remove>> prepare_dns_updates can
\* return for a listing, one per iteration order of the sets and dicts.
PreparedUpdates(new_networks) ==
    {prepare_dns_updates(new_networks,
                         has_real_changes(new_networks, container_networks),
                         get_changes(new_networks, container_networks),
                         corder, norder)
       : corder \in Perms(Containers), norder \in Perms(Networks)}

\* What a reconciliation does before it dispatches: the listing,
\* update_state, get_changes and prepare_dns_updates (returning prep); and
\* the history of absences and emitted removals.
Prepare(new_networks, raised, prep) ==
    /\ update_state(new_networks)
    /\ listing_raised' = raised
    /\ entries_to_add' = prep[1]
    /\ entries_to_remove' = prep[2]
    /\ returned_after' =
          [c \in Containers |->
              IF c \in DOMAIN new_networks /\ c \notin DOMAIN container_networks
              THEN absent_run[c] ELSE 0]
    /\ removals_emitted' =
          [c \in Containers |->
              IF c \in DOMAIN container_networks
              THEN (IF c \in DOMAIN new_networks THEN 0
                    ELSE Min(MaxRun, CountFor(prep[2], c)))
              ELSE Min(MaxRun, removals_emitted[c] + CountFor(prep[2], c))]

\* sync_dns_entries: prepare_dns_updates, then (when either list is not
\* empty) DistributedDNSManager.process_batch_changes on the two lists as one
\* batch.  `listed` is what the listing had built, `raised` whether it raised.
sync_batch(listed, raised, plan) ==
    LET new_networks == get_container_networks(listed, raised)
    IN \E prep \in PreparedUpdates(new_networks) :
       \E res \in {IF prep[1] = <<>> /\ prep[2] = <<>>
                   THEN AccWithRows(records_file, rows)
                   ELSE process_batch_changes(AccWithRows(records_file, rows),
                                              prep[1], prep[2], plan, config)} :
          /\ Prepare(new_networks, raised, prep)
          /\ records_file' = res.file
          /\ rows' = res.rows
          /\ log' = res.log
          /\ changed' = res.ok
          /\ faults' = IF res.log = <<>> THEN NoFaults ELSE plan
          /\ UNCHANGED <<config, prior_ips, dns_manager, other_vars>>

MasterConfig == [role |-> "master", local_unbound |-> TRUE,
                 replication_client |-> TRUE, remote_hosts |-> remote_hosts,
                 api_client |-> FALSE]

\* A master with opnsense_fallback configured as well.
FallbackConfig == [MasterConfig EXCEPT !.api_client = TRUE]

\* The managers a batch can be handed to: a DistributedDNSManager, a
\* DNSManager, or a HybridDNSManager with or without its distributed_dns and
\* its api_dns_manager.
Manager(class, distributed_dns, api_dns_manager) ==
    [class |-> class, distributed_dns |-> distributed_dns,
     api_dns_manager |-> api_dns_manager]

Managers ==
    {Manager("DistributedDNSManager", FALSE, FALSE), Manager("DNSManager", FALSE, FALSE)}
    \cup {Manager("HybridDNSManager", d, a) : d \in BOOLEAN, a \in BOOLEAN}

\* The threads that call process_batch_changes on the one
\* DistributedDNSManager: the thread of ContainerMonitor and the
\* serve_forever thread of the replication server.
Threads == {"reconcile", "handler"}

\* No cleanup_dns_records call has returned since the log was last read.
NoCleanup ==
    [batch_size |-> 0, max_hostnames |-> 0, before |-> <<>>, requested |-> <<>>,
     removed |-> 0, api |-> ApiUp]

\* The event loop is waiting for the stream to deliver an event.
NoEvent == [Type |-> "", Action |-> ""]

\* What get returns for a miss, and a thread that is in no DNSCache call.
Miss == "None"
Idle == [op |-> "idle", at |-> "idle"]
CacheKeys == {"all_dns_entries", "other_key"}

\* No POST has been received.
NoData == [hostname |-> <<"<None>">>, ip |-> "", network_name |-> <<"<None>">>]

NoRequest == [path |-> <<>>, content_length |-> 0, body |-> "", data |-> NoData]

PostInit ==
    /\ request = NoRequest
    /\ response = 0

\* No reload has been requested.
NoUptime == [known |-> FALSE, value |-> 0]

NoReload == [n |-> 0, count |-> 0, uptime |-> NoUptime, elapsed |-> 0,
             posts |-> <<>>, result |-> FALSE, since |-> 0,
             restarts_ok |-> TRUE]

\* DNSManager.__init__: the reload statistics, at time 0.
ReloadInit ==
    /\ updates_since_restart = 0
    /\ last_reconfigure_time = 0
    /\ reload = NoReload

\* DNSCache.__init__, at time 0.
CacheInit ==
    /\ cache = [k \in {} |-> k]
    /\ now = 0
    /\ calls = [t \in Threads |-> Idle]
    /\ latest = [k \in CacheKeys |-> Miss]

\* listen_for_events is in its event loop, called from outside.
Listening == [at |-> "loop", try_frames |-> 0]

\* The peers start with the zone file of the master.
ComponentsInit ==
    /\ CacheInit
    /\ PostInit
    /\ ReloadInit
    /\ listener = Listening
    /\ since_sync = 0
    /\ since_cleanup = 0
    /\ changes_detected = FALSE
    /\ event = NoEvent
    /\ peer_files = [p \in {peer1, peer2} |-> Header]
    /\ pc = [t \in Threads |-> "idle"]
    /\ current_records = [t \in Threads |-> <<>>]
    /\ batch = [t \in Threads |-> <<>>]
    /\ host_name = "nas"
    /\ cleanup_run = NoCleanup

\* _detect_flannel_network found FLANNEL_NETWORK=10.244.0.0/16.
OtherInit == ComponentsInit /\ flannel_network = Flannel16

MonitorInit ==
    /\ OtherInit
    /\ dns_manager = Manager("DistributedDNSManager", FALSE, FALSE)
    /\ faults = NoFaults
    /\ rows = <<>>
    /\ config = MasterConfig
    /\ records_file = Header
    /\ entries_to_add = <<>>
    /\ entries_to_remove = <<>>
    /\ listing_raised = FALSE
    /\ changed = FALSE
    /\ log = <<>>
    /\ returned_after = [c \in Containers |-> 0]
    /\ removals_emitted = [c \in Containers |-> 0]
    /\ prior_ips = {}

Init == TrackerInit /\ MonitorInit

(***************************************************************************)
(* The tracker driven on its own.                                          *)
(***************************************************************************)
TrackerNone == update_state_None /\ UNCHANGED <<monitor_vars, other_vars>>

TrackerUpdate ==
    \E new_networks \in TrackerSnapshots :
        update_state(new_networks) /\ UNCHANGED <<monitor_vars, other_vars>>

TrackerNext == TrackerNone \/ TrackerUpdate

SpecTracker == Init /\ [][TrackerNext]_vars

(***************************************************************************)
(* Reconciliations in which every file write and reload succeeds.          *)
(***************************************************************************)
Reconcile ==
    \E listed \in ReconcileSnapshots, raised \in BOOLEAN :
        sync_batch(listed, raised, NoFaults)

Spec == Init /\ [][Reconcile]_vars

(***************************************************************************)
(* The file backend driven on its own: single calls of add_record,         *)
(* remove_record and remove_all_records, each of which may fail.           *)
(***************************************************************************)
\* The domains of the calls: the base domain and a network's domain.
FileDomains == {docker_local, SubDomain(sanitize_network_name_distributed(app_net))}

\* One call that meets no fault, one that fails before writing, one that
\* fails while writing.
CallPlans ==
    {NoFaults} \cup [at : {1}, mode : {"read_error", "write_error"},
                     lasting : {FALSE}, reload_ok : {TRUE}, peers_down : {{}}]

\* The addresses of the record lines of hostname.domain.
IpsOf(lines, hostname, domain) ==
    {lines[i].ip : i \in {j \in DOMAIN lines : MatchesRecord(lines[j], hostname, domain)}}

FileStep(ev, hostname, domain, ip, plan) ==
    \E res \in {FileCall(Acc(records_file, <<>>, 0, FALSE), ev, hostname, domain, ip, plan)} :
        /\ records_file' = res.file
        /\ log' = res.log
        /\ changed' = res.ok
        /\ prior_ips' = IF ev = "add_record" THEN IpsOf(records_file, hostname, domain)
                        ELSE {}
        /\ UNCHANGED <<tracker_vars, tracker_hist, config, entries_to_add,
                       entries_to_remove, listing_raised, returned_after,
                       removals_emitted, dns_manager, rows, faults, other_vars>>

FileAdd ==
    \E hostname \in Containers, ip \in IPs, domain \in FileDomains, plan \in CallPlans :
        FileStep("add_record", hostname, domain, ip, plan)

FileRemove ==
    \E hostname \in Containers, domain \in FileDomains, plan \in CallPlans :
        FileStep("remove_record", hostname, domain, "", plan)

FileRemoveAll ==
    \E hostname \in Containers, plan \in CallPlans :
        FileStep("remove_all_records", hostname, <<>>, "", plan)

FileNext == FileAdd \/ FileRemove \/ FileRemoveAll

SpecFile == Init /\ [][FileNext]_vars

(***************************************************************************)
(* Batches handed to a manager: DistributedDNSManager.process_batch_changes *)
(* under every fault plan, DNSManager.process_dns_changes, or              *)
(* HybridDNSManager.process_dns_changes.  Which manager there is is fixed  *)
(* at start.  log holds the calls of the dispatch in progress; the next    *)
(* dispatch starts with an empty log.                                      *)
(***************************************************************************)
MaxBatch == 2

Entry(hostname, ip, network_name) ==
    [hostname |-> hostname, ip |-> ip, network_name |-> network_name]

BatchAddEntries ==
    {Entry(web, "10.0.0.2", bridge), Entry(web, "10.244.0.9", app_net),
     Entry(traefik, "10.0.0.2", bridge), Entry(traefik, "10.244.0.9", bridge)}

BatchRemoveEntries ==
    {[hostname |-> web], Entry(web, "10.244.0.9", app_net)}

\* The entries of the batches handed to a HybridDNSManager.
HybridAddEntries ==
    {Entry(web, "10.0.0.2", bridge), Entry(web, "10.244.0.9", app_net)}

HybridRemoveEntries == {[hostname |-> web]}

\* The lists of at most n entries of S.
ListsUpTo(S, n) == UNION {[1..k -> S] : k \in 0..n}

DispatchInit ==
    /\ TrackerInit
    /\ OtherInit
    /\ dns_manager \in Managers
    /\ faults = NoFaults
    /\ rows = <<>>
    /\ config = MasterConfig
    /\ records_file = Header
    /\ entries_to_add = <<>>
    /\ entries_to_remove = <<>>
    /\ listing_raised = FALSE
    /\ changed = FALSE
    /\ log = <<>>
    /\ returned_after = [c \in Containers |-> 0]
    /\ removals_emitted = [c \in Containers |-> 0]
    /\ prior_ips = {}

\* What every dispatch leaves alone.
dispatch_unchanged ==
    <<tracker_vars, tracker_hist, config, listing_raised, returned_after,
      removals_emitted, prior_ips, dns_manager>>

DistributedDispatch ==
    /\ dns_manager.class = "DistributedDNSManager"
    /\ log = <<>>
    /\ \E to_add \in ListsUpTo(BatchAddEntries, MaxBatch),
          to_remove \in ListsUpTo(BatchRemoveEntries, 1),
          plan \in FaultPlans :
          \E res \in {process_batch_changes(AccWithRows(records_file, rows),
                                            to_add, to_remove, plan, config)} :
             /\ entries_to_add' = to_add
             /\ entries_to_remove' = to_remove
             /\ records_file' = res.file
             /\ rows' = res.rows
             /\ log' = res.log
             /\ changed' = res.ok
             /\ faults' = IF res.log = <<>> THEN NoFaults ELSE plan
    /\ UNCHANGED <<dispatch_unchanged, other_vars>>

RestDispatch ==
    /\ dns_manager.class = "DNSManager"
    /\ log = <<>>
    /\ \E to_add \in ListsUpTo(BatchAddEntries, MaxBatch),
          to_remove \in ListsUpTo(BatchRemoveEntries, 1) :
          \E res \in {rest_process_dns_changes(rows, <<>>, to_add, to_remove, ApiUp)} :
             /\ entries_to_add' = to_add
             /\ entries_to_remove' = to_remove
             /\ rows' = res.rows
             /\ log' = res.log
             /\ changed' = res.ok
    /\ UNCHANGED <<dispatch_unchanged, records_file, faults, other_vars>>

HybridDispatch ==
    /\ dns_manager.class = "HybridDNSManager"
    /\ log = <<>>
    /\ \E to_add \in ListsUpTo(HybridAddEntries, MaxBatch),
          to_remove \in ListsUpTo(HybridRemoveEntries, 1),
          plan \in (IF dns_manager.distributed_dns THEN FaultPlans ELSE {NoFaults}) :
          \E res \in {hybrid_process_dns_changes(records_file, rows, to_add, to_remove,
                                                 plan, config, dns_manager)} :
             /\ entries_to_add' = to_add
             /\ entries_to_remove' = to_remove
             /\ records_file' = res.file
             /\ rows' = res.rows
             /\ log' = res.log
             /\ changed' = res.ok
             /\ faults' = IF res.log = <<>> THEN NoFaults ELSE plan
    /\ UNCHANGED <<dispatch_unchanged, other_vars>>

\* The dispatch is over: its lists and its log are dropped.
DispatchDone ==
    /\ log /= <<>>
    /\ log' = <<>>
    /\ entries_to_add' = <<>>
    /\ entries_to_remove' = <<>>
    /\ changed' = FALSE
    /\ faults' = NoFaults
    /\ UNCHANGED <<dispatch_unchanged, records_file, rows, other_vars>>

DispatchNext == DistributedDispatch \/ RestDispatch \/ HybridDispatch \/ DispatchDone

SpecDispatch == DispatchInit /\ [][DispatchNext]_vars

(***************************************************************************)
(* Batches handed to a DNSManager whose API may fail: it answers every     *)
(* call, or refuses the additions, or fails to delete one of the rows.     *)
(***************************************************************************)
ApiPlans(rows_) ==
    {ApiUp, [ApiUp EXCEPT !.add_ok = FALSE]}
    \cup {[ApiUp EXCEPT !.del_failing = {rows_[i].uuid}] : i \in DOMAIN rows_}

RestAddEntries ==
    {Entry(traefik, "10.0.0.2", bridge), Entry(traefik, "10.244.0.9", bridge),
     Entry(web, "10.0.0.2", bridge)}

RestRemoveEntries == {[hostname |-> traefik], Entry(web, "10.0.0.2", bridge)}

RestInit ==
    /\ TrackerInit
    /\ OtherInit
    /\ dns_manager = Manager("DNSManager", FALSE, FALSE)
    /\ faults = NoFaults
    /\ rows = <<>>
    /\ config = MasterConfig
    /\ records_file = Header
    /\ entries_to_add = <<>>
    /\ entries_to_remove = <<>>
    /\ listing_raised = FALSE
    /\ changed = FALSE
    /\ log = <<>>
    /\ returned_after = [c \in Containers |-> 0]
    /\ removals_emitted = [c \in Containers |-> 0]
    /\ prior_ips = {}

RestFaultyDispatch ==
    /\ log = <<>>
    /\ \E to_add \in ListsUpTo(RestAddEntries, MaxBatch),
          to_remove \in ListsUpTo(RestRemoveEntries, 1),
          api \in ApiPlans(rows) :
          \E res \in {rest_process_dns_changes(rows, <<>>, to_add, to_remove, api)} :
             /\ entries_to_add' = to_add
             /\ entries_to_remove' = to_remove
             /\ rows' = res.rows
             /\ log' = res.log
             /\ changed' = res.ok
    /\ UNCHANGED <<dispatch_unchanged, records_file, faults, other_vars>>

RestNext == RestFaultyDispatch \/ DispatchDone

SpecRest == RestInit /\ [][RestNext]_vars

(***************************************************************************)
(* Batches handed to a DistributedDNSManager that has its OPNsense         *)
(* fallback configured, under every fault plan.                            *)
(***************************************************************************)
FallbackInit ==
    /\ TrackerInit
    /\ OtherInit
    /\ dns_manager = Manager("DistributedDNSManager", FALSE, FALSE)
    /\ faults = NoFaults
    /\ rows = <<>>
    /\ config = FallbackConfig
    /\ records_file = Header
    /\ entries_to_add = <<>>
    /\ entries_to_remove = <<>>
    /\ listing_raised = FALSE
    /\ changed = FALSE
    /\ log = <<>>
    /\ returned_after = [c \in Containers |-> 0]
    /\ removals_emitted = [c \in Containers |-> 0]
    /\ prior_ips = {}

FallbackNext == DistributedDispatch \/ DispatchDone

SpecFallback == FallbackInit /\ [][FallbackNext]_vars

(***************************************************************************)
(* Properties of the tracker                                               *)
(***************************************************************************)
\* The snapshot got from s1 by applying a ChangeSet ch whose added containers
\* take their network map from s2.
ApplyChanges(s1, ch, s2) ==
    LET kept == (DOMAIN s1 \ ch.removed_containers) \cup ch.added_containers
        Patched(c) ==
            LET nc == ch.network_changes[c]
                nets == (DOMAIN s1[c] \cup DOMAIN nc.added) \ DOMAIN nc.removed
            IN [n \in nets |-> IF n \in DOMAIN nc.added THEN nc.added[n] ELSE s1[c][n]]
    IN [c \in kept |->
           IF c \in ch.added_containers THEN s2[c]
           ELSE IF c \in DOMAIN ch.network_changes THEN Patched(c)
           ELSE s1[c]]

\* C2: for two successive snapshots S1 (previous_networks) and S2
\* (container_networks) passed to update_state, applying the ChangeSet that
\* get_changes returns to S1 yields exactly S2.
C2_ChangesApplyToNext ==
    ApplyChanges(previous_networks, changes, container_networks) = container_networks

\* C2 witness: a cycle whose ChangeSet holds a container that changed the ip
\* of one network (or gained one) and lost another network.
C2_Witness ==
    /\ last_call = "dict"
    /\ \E c \in DOMAIN changes.network_changes :
          /\ changes.network_changes[c].added /= EmptyDict
          /\ changes.network_changes[c].removed /= EmptyDict
          /\ \E n \in DOMAIN previous_networks[c] \cap DOMAIN container_networks[c] :
                previous_networks[c][n] /= container_networks[c][n]

\* C3: a container that was present and then stays absent is in
\* removed_containers in the first cycle of its absence and in none of the
\* following cycles of that absence.
C3_RemovedOncePerDisappearance ==
    \A c \in Containers :
        /\ absent_run[c] = 1 => c \in changes.removed_containers
        /\ absent_run[c] > 1 => c \notin changes.removed_containers

\* C3 witness: a container in the third cycle of an absence, past
\* the cycle that reported it removed.
C3_Witness ==
    \E c \in Containers :
        /\ absent_run[c] = 3
        /\ last_call /= "None"
        /\ c \notin changes.removed_containers
        /\ c \notin DOMAIN gone_containers

\* C6 as stated: update_state with None or with an empty snapshot returns
\* false and leaves the current snapshot, the previous snapshot and the gone
\* table as they were.
C6_NoneOrEmptyRejected ==
    [][last_call' \in {"None", "empty"}
          => /\ has_changes' = FALSE
             /\ UNCHANGED <<container_networks, previous_networks, gone_containers>>]_vars

\* C6 as the code has it: update_state(None) returns false and leaves the
\* current snapshot, the previous snapshot and the gone table as they were;
\* an empty snapshot is taken like any other: it becomes the current
\* snapshot, the old current one becomes the previous one, every container
\* that was present enters the gone table, and the call returns true exactly
\* when the old current snapshot was not empty.
C6_OnlyNoneRejected ==
    [][/\ last_call' = "None"
          => /\ has_changes' = FALSE
             /\ UNCHANGED <<container_networks, previous_networks, gone_containers>>
       /\ last_call' = "empty"
          => /\ container_networks' = EmptyDict
             /\ previous_networks' = container_networks
             /\ DOMAIN container_networks \subseteq DOMAIN gone_containers'
             /\ has_changes' = (container_networks /= EmptyDict)]_vars

\* C6 witness: None was refused right after an empty snapshot had been taken
\* in place of a snapshot with containers.
C6_Witness ==
    /\ last_call = "None"
    /\ has_changes = FALSE
    /\ container_networks = EmptyDict
    /\ previous_networks /= EmptyDict
    /\ gone_containers /= EmptyDict


(***************************************************************************)
(* Properties of the reconciliation                                        *)
(***************************************************************************)
\* The record lines of the file that carry the name.
LinesNamed(name) ==
    {i \in DOMAIN records_file :
        records_file[i].kind = "data" /\ records_file[i].name = name}

\* <container>.<sanitized-network>.docker.local
NetworkName(c, n) == c \o Dot \o SubDomain(sanitize_network_name_distributed(n))

\* C1: when every file write and reload succeeds, the file holds exactly the
\* records of the latest snapshot: for every container with at least one
\* network a base-domain line with one of its current addresses and, for
\* every network other than bridge, that network's line with its address;
\* and no record line of a container that is not in the snapshot or of a
\* network the container no longer has (a flannel line counts as current
\* while the container has a flannel address).
C1_FileMatchesSnapshot ==
    /\ \A c \in DOMAIN container_networks :
          container_networks[c] /= EmptyDict =>
             /\ \E i \in LinesNamed(c \o Dot \o docker_local) :
                   \E n \in DOMAIN container_networks[c] :
                      records_file[i].ip = container_networks[c][n]
             /\ \A n \in DOMAIN container_networks[c] \ {bridge} :
                   \E i \in LinesNamed(NetworkName(c, n)) :
                      records_file[i].ip = container_networks[c][n]
    /\ \A i \in DOMAIN records_file :
          records_file[i].kind = "data" =>
             \E c \in DOMAIN container_networks :
                \/ /\ records_file[i].name = c \o Dot \o docker_local
                   /\ container_networks[c] /= EmptyDict
                \/ \E n \in DOMAIN container_networks[c] \ {bridge} :
                      records_file[i].name = NetworkName(c, n)
                \/ /\ records_file[i].name = NetworkName(c, flannel)
                   /\ \E n \in DOMAIN container_networks[c] :
                         is_flannel_ip(container_networks[c][n])

\* C4 as stated: a container that was absent for k cycles in a row,
\* 1 <= k < cleanup_cycles, and is present again caused no removal entry
\* over those cycles.
C4_NoRemovalForShortAbsence ==
    \A c \in Containers :
        (1 <= returned_after[c] /\ returned_after[c] < cleanup_cycles)
            => removals_emitted[c] = 0

\* C4 as the code has it: a container that was absent for k cycles in a
\* row, 1 <= k < cleanup_cycles, and is present again caused exactly one
\* removal entry over those cycles (the one of the first absent cycle).
C4_OneRemovalForShortAbsence ==
    \A c \in Containers :
        (1 <= returned_after[c] /\ returned_after[c] < cleanup_cycles)
            => removals_emitted[c] = 1

\* C4 witness: a container is back after two cycles of absence, two
\* being less than cleanup_cycles.
C4_Witness ==
    \E c \in Containers :
        /\ returned_after[c] = 2
        /\ returned_after[c] < cleanup_cycles
        /\ c \in DOMAIN container_networks
        /\ removals_emitted[c] = 1

RemovalEvents == {"remove_record", "remove_all_records", "post_remove"}

\* C5: a reconciliation whose container listing raised returns false, leaves
\* the current snapshot, the previous snapshot and the gone table as they
\* were, and dispatches no removal to the file or to a peer.
C5_ListingFailureChangesNothing ==
    [][listing_raised'
          => /\ changed' = FALSE
             /\ UNCHANGED <<container_networks, previous_networks, gone_containers>>
             /\ \A i \in DOMAIN log' : log'[i].ev \notin RemovalEvents]_vars


(***************************************************************************)
(* Properties of the file backend and of the batch dispatch                *)
(***************************************************************************)
\* C7: the file holds at most one record line per (hostname, domain), and
\* right after a successful add_record(h, i, d) it holds exactly one line of
\* (h, d), which carries i, whatever the file held of (h, d) before.
C7_OneLinePerName ==
    /\ \A hostname \in Containers, domain \in FileDomains :
          Cardinality(LinesNamed(hostname \o Dot \o domain)) <= 1
    /\ (log /= <<>> /\ log[1].ev = "add_record" /\ log[1].ok)
          => \E i \in DOMAIN records_file :
                /\ LinesNamed(log[1].hostname \o Dot \o log[1].domain) = {i}
                /\ records_file[i].ip = log[1].ip

\* C7 witness: a successful add_record gave a record that carried another
\* address its new address, in a file that holds other records too.
C7_Witness ==
    /\ log /= <<>> /\ log[1].ev = "add_record" /\ log[1].ok
    /\ prior_ips /= {} /\ log[1].ip \notin prior_ips
    /\ \E i \in DOMAIN records_file :
          /\ LinesNamed(log[1].hostname \o Dot \o log[1].domain) = {i}
          /\ records_file[i].ip = log[1].ip
    /\ Len(records_file) >= Len(Header) + 3

(***************************************************************************)
(* Properties of the dispatchers                                           *)
(***************************************************************************)
\* C8: for a batch handed to HybridDNSManager.process_dns_changes and routed
\* to the DistributedDNSManager, reload_unbound is called exactly once if a
\* file call of the batch rewrote the file, and not at all if none did.
C8_OneReloadPerBatch ==
    (dns_manager.class = "HybridDNSManager" /\ dns_manager.distributed_dns) =>
        LET reloads == Cardinality({i \in DOMAIN log : log[i].ev = "reload_unbound"})
            committed == \E i \in DOMAIN log : log[i].ev \in FileEvents /\ log[i].wrote
        IN IF committed THEN reloads = 1 ELSE reloads = 0

\* In the file path no remove_record or remove_all_records call follows an
\* add_record call of the same batch.
FileRemovalsFirst ==
    \A i, j \in DOMAIN log :
        (i < j /\ log[i].ev = "add_record")
            => log[j].ev \notin {"remove_record", "remove_all_records"}

\* C9 as stated: within one batch no file removal follows a file addition,
\* and no delHostOverride POST follows an addHostOverride POST.
C9_RemovalsBeforeAdditions ==
    /\ FileRemovalsFirst
    /\ \A i, j \in DOMAIN log :
          (i < j /\ log[i].ev = "addHostOverride") => log[j].ev /= "delHostOverride"

\* C9 as the code has it: within one batch no file removal follows a file
\* addition; a delHostOverride POST that follows an addHostOverride POST is
\* one that update_dns makes for an obsolete row of the record it adds next:
\* only delHostOverride POSTs of the same hostname and domain lie between it
\* and the addHostOverride of that hostname and domain with another address.
C9_RemovalsBeforeAdditionsButObsolete ==
    /\ FileRemovalsFirst
    /\ \A i, j \in DOMAIN log :
          (i < j /\ log[i].ev = "addHostOverride" /\ log[j].ev = "delHostOverride")
             => \E k \in DOMAIN log :
                   /\ j < k
                   /\ log[k].ev = "addHostOverride"
                   /\ log[k].hostname = log[j].hostname
                   /\ log[k].domain = log[j].domain
                   /\ log[k].ip /= log[j].ip
                   /\ \A m \in (j + 1)..(k - 1) :
                         /\ log[m].ev = "delHostOverride"
                         /\ log[m].hostname = log[j].hostname
                         /\ log[m].domain = log[j].domain

\* C9 witness: a DNSManager batch in which a row was deleted after a row
\* had been added.
C9_Witness ==
    /\ dns_manager.class = "DNSManager"
    /\ \E i, j \in DOMAIN log :
          /\ i < j
          /\ log[i].ev = "addHostOverride"
          /\ log[j].ev = "delHostOverride" /\ log[j].ok
          /\ log[Len(log)].ev = "reconfigure_unbound"

PostEvents == {"post_add", "post_remove"}

\* C10: on a master, a process_batch_changes that posts to a peer made all
\* its file calls and its reload successfully before the first post.
C10_PostsOnlyAfterCommit ==
    dns_manager.class = "DistributedDNSManager" =>
    \A i \in DOMAIN log :
        log[i].ev \in PostEvents =>
           /\ \A j \in DOMAIN log :
                 log[j].ev \in FileEvents \cup {"reload_unbound"} => (j < i /\ log[j].ok)
           /\ \E j \in 1..(i - 1) : log[j].ev = "reload_unbound"

(***************************************************************************)
(* Replication: a master whose file calls and reloads succeed applies      *)
(* batches, and each peer, whose endpoint always succeeds, handles the     *)
(* POSTs it is sent before replicate_record returns.                       *)
(***************************************************************************)
ReplicaAddEntries ==
    {Entry(web, "10.0.0.2", bridge), Entry(web, "10.244.0.9", app_net),
     Entry(web, "10.244.0.9", bridge), Entry(traefik, "10.0.0.2", bridge)}

ReplicaRemoveEntries == {[hostname |-> web], Entry(web, "10.244.0.9", app_net)}

ReplicatedBatch ==
    /\ log = <<>>
    /\ \E to_add \in ListsUpTo(ReplicaAddEntries, MaxBatch),
          to_remove \in ListsUpTo(ReplicaRemoveEntries, 1) :
          \E res \in {process_batch_changes(AccWithRows(records_file, rows),
                                            to_add, to_remove, NoFaults, config)} :
             /\ entries_to_add' = to_add
             /\ entries_to_remove' = to_remove
             /\ records_file' = res.file
             /\ rows' = res.rows
             /\ log' = res.log
             /\ changed' = res.ok
             /\ peer_files' = [p \in DOMAIN peer_files |->
                                  Deliver(peer_files[p], res.log, p)]
    /\ UNCHANGED <<dispatch_unchanged, faults, thread_vars, cleanup_vars, timer_vars, cache_vars, post_vars, reload_vars, flannel_network>>

ReplicationNext == ReplicatedBatch \/ DispatchDone

SpecReplication == Init /\ [][ReplicationNext]_vars

\* The (fqdn, ip) records of a zone file.
RecordSet(lines) ==
    {<<lines[i].name, lines[i].ip>> : i \in {j \in DOMAIN lines : lines[j].kind = "data"}}

\* C11: after every batch the master applied, each peer holds the same set
\* of (fqdn, ip) records as the master.
C11_PeerMatchesMaster ==
    \A p \in DOMAIN peer_files : RecordSet(peer_files[p]) = RecordSet(records_file)

\* The mutations _replicate_batch_changes replicates, in its order: the
\* removals with a hostname, then the additions with a hostname and an ip.
ReplicatedMutations(to_add, to_remove) ==
    [i \in 1..Len(to_remove) |-> <<"post_remove", to_remove[i].hostname, "">>]
    \o [i \in 1..Len(to_add) |-> <<"post_add", to_add[i].hostname, to_add[i].ip>>]

\* Every replicated mutation was posted once to every host, in the order of
\* the hosts, and each POST has its boolean: the host's answer.
OnePostPerPeer(lg, to_add, to_remove, hosts, down) ==
    LET posts == SelectSeq(lg, LAMBDA e : e.ev \in PostEvents)
        muts == ReplicatedMutations(to_add, to_remove)
        n == Len(hosts)
    IN posts /= <<>> =>
         /\ Len(posts) = n * Len(muts)
         /\ \A k \in DOMAIN muts : \A j \in DOMAIN hosts :
               LET post == posts[(k - 1) * n + j]
               IN /\ post.ev = muts[k][1]
                  /\ post.hostname = muts[k][2]
                  /\ post.ip = muts[k][3]
                  /\ post.peer = hosts[j]
                  /\ post.ok = (hosts[j] \notin down)

\* C12: whichever peers fail, a batch given to process_batch_changes returns
\* the same value and leaves the same records file as when every peer
\* succeeds; and each replicated mutation is posted exactly once to every
\* peer, a failed peer included and the peers after it too, with a boolean
\* per peer.
C12_PeerFailuresChangeNothing ==
    [][(dns_manager.class = "DistributedDNSManager" /\ log = <<>> /\ log' /= <<>>) =>
          /\ \A down \in SUBSET {peer1, peer2} :
                LET r == process_batch_changes(
                             AccWithRows(records_file, rows), entries_to_add',
                             entries_to_remove', [faults' EXCEPT !.peers_down = down],
                             config)
                IN r.file = records_file' /\ r.ok = changed'
          /\ OnePostPerPeer(log', entries_to_add', entries_to_remove',
                            config.remote_hosts, faults'.peers_down)]_vars

\* A batch was replicated although the first peer failed: the second peer
\* was posted to after the failure and the batch returned True.
C12_Witness ==
    /\ dns_manager.class = "DistributedDNSManager"
    /\ changed
    /\ faults.peers_down = {peer1}
    /\ \E i, j \in DOMAIN log :
          /\ i < j
          /\ log[i].ev \in PostEvents /\ log[i].peer = peer1 /\ ~log[i].ok
          /\ log[j].ev \in PostEvents /\ log[j].peer = peer2 /\ log[j].ok

(***************************************************************************)
(* The two threads of a host with a replication server, each taking a      *)
(* batch of one addition (to the base domain) through process_batch_changes *)
(* on the same DistributedDNSManager: add_record reads the file, writes it  *)
(* back, and reload_unbound ends the batch.  Nothing in the code makes a    *)
(* thread wait for the other.                                              *)
(***************************************************************************)
ThreadEntries == {Entry(c, ip, bridge) : c \in Containers, ip \in IPs}

thread_unchanged ==
    <<tracker_vars, tracker_hist, monitor_vars, peer_files, cleanup_vars, timer_vars, cache_vars, post_vars, reload_vars, flannel_network>>

\* process_batch_changes is entered with a batch.
BeginBatch(t) ==
    /\ pc[t] = "idle"
    /\ \E entry \in ThreadEntries : batch' = [batch EXCEPT ![t] = entry]
    /\ pc' = [pc EXCEPT ![t] = "add_record"]
    /\ UNCHANGED <<thread_unchanged, current_records>>

\* add_record: current_records = f.readlines()
ReadRecords(t) ==
    /\ pc[t] = "add_record"
    /\ current_records' = [current_records EXCEPT ![t] = records_file]
    /\ pc' = [pc EXCEPT ![t] = "write"]
    /\ UNCHANGED <<thread_unchanged, batch>>

\* add_record: f.writelines(filtered_records)
WriteRecords(t) ==
    /\ pc[t] = "write"
    /\ records_file' = add_record(current_records[t], batch[t].hostname, batch[t].ip,
                                  docker_local)
    /\ pc' = [pc EXCEPT ![t] = "reload_unbound"]
    /\ UNCHANGED <<tracker_vars, tracker_hist, config, entries_to_add,
                   entries_to_remove, listing_raised, changed, log, returned_after,
                   removals_emitted, prior_ips, dns_manager, rows, faults, peer_files,
                   current_records, batch, cleanup_vars, timer_vars, cache_vars, post_vars, reload_vars, flannel_network>>

\* reload_unbound, and process_batch_changes returns.
ReloadUnbound(t) ==
    /\ pc[t] = "reload_unbound"
    /\ pc' = [pc EXCEPT ![t] = "idle"]
    /\ current_records' = [current_records EXCEPT ![t] = <<>>]
    /\ batch' = [batch EXCEPT ![t] = <<>>]
    /\ UNCHANGED thread_unchanged

ThreadsNext ==
    \E t \in Threads : BeginBatch(t) \/ ReadRecords(t) \/ WriteRecords(t) \/ ReloadUnbound(t)

SpecThreads == Init /\ [][ThreadsNext]_vars

\* A thread is between the first file read of its batch and its reload.
InFlight(t) == pc[t] \in {"write", "reload_unbound"}

\* C15: at most one add-remove-reload sequence is in flight on the File
\* backend: the batch of the reconcile thread and the batch of a request
\* handler never overlap between the first file read and the reload.
C15_OneBatchInFlight ==
    ~(InFlight("reconcile") /\ InFlight("handler"))

RestWrites == {"addHostOverride", "delHostOverride"}

\* The manager has a File backend.
FileBackendEnabled ==
    \/ dns_manager.class = "DistributedDNSManager" /\ config.local_unbound
    \/ dns_manager.class = "HybridDNSManager" /\ dns_manager.distributed_dns

\* C13: with a File backend, a batch none of whose records is critical makes
\* no add or delete request to OPNsense, whatever became of the file writes
\* and the reload.
C13_NoRestWriteForNonCritical ==
    (/\ FileBackendEnabled
     /\ \A i \in DOMAIN entries_to_add : ~is_critical_record(entries_to_add[i].hostname)
     /\ \A i \in DOMAIN entries_to_remove :
           ~is_critical_record(entries_to_remove[i].hostname))
    => \A i \in DOMAIN log : log[i].ev \notin RestWrites

\* C14: a batch whose file write or reload failed is still replicated to
\* the peers and its critical records still reach OPNsense.
C14_FailureDoesNotStopOtherBackends ==
    (/\ dns_manager.class = "DistributedDNSManager"
     /\ \E i \in DOMAIN log :
           log[i].ev \in FileEvents \cup {"reload_unbound"} /\ ~log[i].ok)
    => /\ \E i \in DOMAIN log : log[i].ev \in PostEvents
       /\ (\E i \in DOMAIN entries_to_add : is_critical_record(entries_to_add[i].hostname))
             => \E i \in DOMAIN log : log[i].ev \in RestWrites

(***************************************************************************)
(* DNSManager.cleanup_dns_records.  A row's `ours` says that its           *)
(* description contains "Docker container on <host_name>".                 *)
(***************************************************************************)
\* The values of a list without repetitions, in the order they first appear:
\* the order in which a dict receives its keys.
RECURSIVE Distinct(_)
Distinct(xs) ==
    IF xs = <<>> THEN <<>>
    ELSE <<xs[1]>> \o Distinct(SelectSeq(Tail(xs), LAMBDA x : x /= xs[1]))

\* First pass: hostname_domains, as the list of its (hostname, domain) data
\* in the order the second pass walks them.
hostname_domains(dns_entries) ==
    FlatMap(Distinct([i \in DOMAIN dns_entries |-> dns_entries[i].hostname]),
            LAMBDA hostname :
       LET entries == SelectSeq(dns_entries, LAMBDA e : e.hostname = hostname)
           domains == Distinct([i \in DOMAIN entries |-> entries[i].domain])
       IN [j \in DOMAIN domains |->
             LET of_domain == SelectSeq(entries, LAMBDA e : e.domain = domains[j])
             IN [hostname |-> hostname, domain |-> domains[j],
                 expected_ip |-> of_domain[1].ip, count |-> Len(of_domain),
                 entries |-> of_domain]])

\* duplicates.sort(key=count, reverse=True): a stable sort.
RECURSIVE SortByCount(_)
SortByCount(ds) ==
    IF ds = <<>> THEN <<>>
    ELSE LET top == CHOOSE c \in {ds[i].count : i \in DOMAIN ds} :
                        \A i \in DOMAIN ds : ds[i].count <= c
         IN SelectSeq(ds, LAMBDA d : d.count = top)
            \o SortByCount(SelectSeq(ds, LAMBDA d : d.count /= top))

\* Second pass.
duplicates(dns_entries) ==
    SortByCount(SelectSeq(hostname_domains(dns_entries), LAMBDA d : d.count > 1))

\* The loop of cleanup_dns_records over the entries of one hostname/domain
\* that deletes every entry, the first one included.
RECURSIVE duplicates_for_hostname_keeps_none(_, _, _, _)
duplicates_for_hostname_keeps_none(all_entries, expected_ip, keep_first, host) ==
    IF all_entries = <<>> THEN <<>>
    ELSE LET entry == all_entries[1]
             rest == duplicates_for_hostname_keeps_none(Tail(all_entries), expected_ip,
                                                        keep_first, host)
         IN IF host /= "unknown" /\ ~entry.ours THEN rest ELSE <<entry>> \o rest

\* duplicates_for_hostname: the entries of one hostname/domain that are to
\* be removed.
RECURSIVE duplicates_for_hostname(_, _, _, _)
duplicates_for_hostname(all_entries, expected_ip, keep_first, host) ==
    IF all_entries = <<>> THEN <<>>
    ELSE LET entry == all_entries[1]
         IN IF entry.ip = expected_ip /\ keep_first
            THEN duplicates_for_hostname(Tail(all_entries), expected_ip, FALSE, host)
            ELSE IF host /= "unknown" /\ ~entry.ours
            THEN duplicates_for_hostname(Tail(all_entries), expected_ip, keep_first, host)
            ELSE <<entry>> \o duplicates_for_hostname(Tail(all_entries), expected_ip,
                                                      keep_first, host)

\* The remove_specific_dns calls of one batch; batch_removed counts those
\* that returned True.
RECURSIVE RemoveBatch(_, _, _)
RemoveBatch(racc, current_batch, batch_removed) ==
    IF current_batch = <<>> THEN [acc |-> racc, batch_removed |-> batch_removed]
    ELSE LET e == current_batch[1]
         IN With(remove_specific_dns(racc, e.uuid, e.hostname, e.domain, e.ip),
                 LAMBDA a : RemoveBatch(a, Tail(current_batch),
                                        batch_removed + (IF a.ok THEN 1 ELSE 0)))

\* The batch loop of cleanup_dns_records that reconfigures after every batch.
RECURSIVE CleanupBatches_always_reconfigures(_, _, _, _)
CleanupBatches_always_reconfigures(racc, to_remove, batch_size, total_removed) ==
    IF to_remove = <<>> THEN [acc |-> racc, total_removed |-> total_removed]
    ELSE With(RemoveBatch(racc, SubSeq(to_remove, 1, Min(batch_size, Len(to_remove))), 0),
              LAMBDA done :
              CleanupBatches_always_reconfigures(
                  reconfigure_unbound(done.acc),
                  SubSeq(to_remove, Min(batch_size, Len(to_remove)) + 1, Len(to_remove)),
                  batch_size, total_removed + done.batch_removed))

\* The batch loop of cleanup_dns_records.
RECURSIVE CleanupBatches(_, _, _, _)
CleanupBatches(racc, to_remove, batch_size, total_removed) ==
    IF to_remove = <<>> THEN [acc |-> racc, total_removed |-> total_removed]
    ELSE With(RemoveBatch(racc, SubSeq(to_remove, 1, Min(batch_size, Len(to_remove))), 0),
              LAMBDA done :
              CleanupBatches(
                  IF done.batch_removed > 0 THEN reconfigure_unbound(done.acc)
                  ELSE done.acc,
                  SubSeq(to_remove, Min(batch_size, Len(to_remove)) + 1, Len(to_remove)),
                  batch_size, total_removed + done.batch_removed))

\* cleanup_dns_records(batch_size, max_hostnames): the rows and the log
\* afterwards, the uuids it asked to delete, and the number it returns.
cleanup_dns_records(rows_, batch_size, max_hostnames, host, api) ==
    With(duplicates(get_all_dns_entries(rows_)), LAMBDA dups :
    With(FlatMap(SubSeq(dups, 1, Min(max_hostnames, Len(dups))), LAMBDA data :
            duplicates_for_hostname(data.entries, data.expected_ip, TRUE, host)),
         LAMBDA to_remove :
    With(CleanupBatches([RestAcc(rows_, <<>>, <<>>, FALSE) EXCEPT !.api = api],
                        to_remove, batch_size, 0),
         LAMBDA done :
         [rows |-> done.acc.rows, log |-> done.acc.log,
          requested |-> [i \in DOMAIN to_remove |-> to_remove[i].uuid],
          removed |-> done.total_removed])))

(***************************************************************************)
(* Cleanup runs of a DNSManager over the host overrides OPNsense holds:    *)
(* rows of this host and of others, for up to three hostname/domain        *)
(* combinations.                                                           *)
(***************************************************************************)
MaxRows == 4
MaxBatchSize == 2
MaxHostnames == 2

RowValues ==
    {[hostname |-> traefik, domain |-> docker_local, ip |-> ip, ours |-> o] :
        ip \in {"10.0.0.2", "10.244.0.9"}, o \in BOOLEAN}
    \cup {[hostname |-> traefik, domain |-> SubDomain(bridge), ip |-> "10.0.0.2",
           ours |-> o] : o \in BOOLEAN}
    \cup {[hostname |-> web, domain |-> docker_local, ip |-> "10.244.0.9",
           ours |-> o] : o \in BOOLEAN}

\* OPNsense gives every row its own uuid.
RowsOf(vs) ==
    [i \in DOMAIN vs |-> [uuid |-> i, hostname |-> vs[i].hostname,
                          domain |-> vs[i].domain, ip |-> vs[i].ip,
                          ours |-> vs[i].ours]]

CleanupInit ==
    /\ TrackerInit
    /\ peer_files = [p \in {peer1, peer2} |-> Header]
    /\ pc = [t \in Threads |-> "idle"]
    /\ current_records = [t \in Threads |-> <<>>]
    /\ batch = [t \in Threads |-> <<>>]
    /\ host_name \in {"unknown", "nas"}
    /\ cleanup_run = NoCleanup
    /\ since_sync = 0
    /\ since_cleanup = 0
    /\ changes_detected = FALSE
    /\ event = NoEvent
    /\ listener = Listening
    /\ CacheInit
    /\ PostInit
    /\ ReloadInit
    /\ flannel_network = Flannel16
    /\ dns_manager = Manager("DNSManager", FALSE, FALSE)
    /\ faults = NoFaults
    /\ rows \in {RowsOf(vs) : vs \in ListsUpTo(RowValues, MaxRows)}
    /\ config = MasterConfig
    /\ records_file = Header
    /\ entries_to_add = <<>>
    /\ entries_to_remove = <<>>
    /\ listing_raised = FALSE
    /\ changed = FALSE
    /\ log = <<>>
    /\ returned_after = [c \in Containers |-> 0]
    /\ removals_emitted = [c \in Containers |-> 0]
    /\ prior_ips = {}

\* The API deletes every row it is asked to, or all but one.
DeletePlans(rows_) ==
    {ApiUp} \cup {[ApiUp EXCEPT !.del_failing = {rows_[i].uuid}] : i \in DOMAIN rows_}

CleanupDnsRecords ==
    /\ log = <<>>
    /\ \E batch_size \in 1..MaxBatchSize, max_hostnames \in 1..MaxHostnames,
          api \in DeletePlans(rows) :
          \E res \in {cleanup_dns_records(rows, batch_size, max_hostnames,
                                          host_name, api)} :
             /\ rows' = res.rows
             /\ log' = res.log
             /\ cleanup_run' =
                   IF res.log = <<>> THEN NoCleanup
                   ELSE [batch_size |-> batch_size, max_hostnames |-> max_hostnames,
                         before |-> rows, requested |-> res.requested,
                         removed |-> res.removed, api |-> api]
    /\ UNCHANGED <<dispatch_unchanged, records_file, entries_to_add,
                   entries_to_remove, changed, faults, peer_files, thread_vars,
                   host_name, timer_vars, cache_vars, post_vars, reload_vars, flannel_network>>

CleanupDone ==
    /\ log /= <<>>
    /\ log' = <<>>
    /\ cleanup_run' = NoCleanup
    /\ UNCHANGED <<dispatch_unchanged, records_file, rows, entries_to_add,
                   entries_to_remove, changed, faults, peer_files, thread_vars,
                   host_name, timer_vars, cache_vars, post_vars, reload_vars, flannel_network>>

CleanupNext == CleanupDnsRecords \/ CleanupDone

SpecCleanup == CleanupInit /\ [][CleanupNext]_vars

\* The uuids a cleanup run asked OPNsense to delete.
Requested == {cleanup_run.requested[i] : i \in DOMAIN cleanup_run.requested}

\* The entries of a list of rows that share the hostname and domain of r.
GroupOf(rs, r) ==
    SelectSeq(rs, LAMBDA e : e.hostname = r.hostname /\ e.domain = r.domain)

\* C16: whatever host_name is configured, the fallback "unknown" included,
\* every entry cleanup_dns_records asks to delete carries the origin tag
\* "Docker container on <host_name>" in its description.
C16_CleanupDeletesOnlyTagged ==
    \A j \in DOMAIN cleanup_run.before :
        cleanup_run.before[j].uuid \in Requested => cleanup_run.before[j].ours

Deleted(u) ==
    /\ \E j \in DOMAIN cleanup_run.before : cleanup_run.before[j].uuid = u
    /\ \A k \in DOMAIN rows : rows[k].uuid /= u

\* The log of a dispatch, as the kinds of its calls.
LogShape ==
    [i \in DOMAIN log |->
        IF log[i].ev = "reconfigure_unbound" THEN "reload"
        ELSE IF log[i].ok THEN "deleted" ELSE "failed"]

\* The calls a run makes for the uuids req in batches of `size`: one delete
\* that succeeds or three attempts that fail for each, and one reload after
\* each batch in which a delete succeeded.
RECURSIVE ExpectedShape(_, _)
ExpectedShape(req, size) ==
    IF req = <<>> THEN <<>>
    ELSE LET n == Min(size, Len(req))
             chunk == SubSeq(req, 1, n)
         IN FlatMap(chunk, LAMBDA u : IF Deleted(u) THEN <<"deleted">>
                                      ELSE <<"failed", "failed", "failed">>)
            \o (IF \E i \in DOMAIN chunk : Deleted(chunk[i]) THEN <<"reload">> ELSE <<>>)
            \o ExpectedShape(SubSeq(req, n + 1, Len(req)), size)

\* The three tagged entries (u1, A), (u2, A), (u3, B) of one name.
ThreeOfOneName ==
    RowsOf(<<[hostname |-> traefik, domain |-> docker_local, ip |-> "10.0.0.2", ours |-> TRUE],
             [hostname |-> traefik, domain |-> docker_local, ip |-> "10.0.0.2", ours |-> TRUE],
             [hostname |-> traefik, domain |-> docker_local, ip |-> "10.244.0.9", ours |-> TRUE]>>)

RemovalNames(e, r) ==
    IF "ip" \notin DOMAIN e /\ "network_name" \notin DOMAIN e
    THEN r.hostname = e.hostname /\ r.ours
    ELSE /\ r.hostname = e.hostname
         /\ r.domain = get_domain_for_network(Get(e, "network_name"))
         /\ r.ip = e.ip

\* Whether an addition or a removal of the batch that produced the log lg
\* from the rows `before` succeeded: an addHostOverride was accepted, or a
\* row a removal entry names was deleted.
MutationSucceeded(before, to_remove, lg) ==
    \/ \E i \in DOMAIN lg : lg[i].ev = "addHostOverride" /\ lg[i].ok
    \/ \E k \in DOMAIN to_remove, j \in DOMAIN before, i \in DOMAIN lg :
          /\ RemovalNames(to_remove[k], before[j])
          /\ lg[i].ev = "delHostOverride" /\ lg[i].ok
          /\ lg[i].hostname = before[j].hostname
          /\ lg[i].domain = before[j].domain
          /\ lg[i].ip = before[j].ip

\* C19: DNSManager.process_dns_changes calls reconfigure_unbound at most
\* once per batch and only as its last call, after every addHostOverride
\* and delHostOverride of the batch; it calls it iff an addition or a
\* removal of the batch succeeded, and that is the value it returns.
C19_OneReloadAfterLastMutation ==
    [][(log = <<>> /\ log' /= <<>> /\ dns_manager.class = "DNSManager") =>
          LET reloads == {i \in DOMAIN log' : log'[i].ev = "reconfigure_unbound"}
              succeeded == MutationSucceeded(rows, entries_to_remove', log')
          IN /\ Cardinality(reloads) <= 1
             /\ \A i \in reloads : i = Len(log')
             /\ (reloads /= {}) <=> succeeded
             /\ changed' <=> succeeded]_vars

\* C19 witness: a batch whose removal was made and whose addition OPNsense
\* refused has ended with its reload.
C19_Witness ==
    /\ dns_manager.class = "DNSManager"
    /\ Len(log) >= 3
    /\ log[Len(log)].ev = "reconfigure_unbound"
    /\ \E i \in DOMAIN log : log[i].ev = "delHostOverride" /\ log[i].ok
    /\ \E i \in DOMAIN log : log[i].ev = "addHostOverride" /\ ~log[i].ok

(***************************************************************************)
(* ContainerMonitor.listen_for_events: the initial synchronization and     *)
(* cleanup, then the loop over the events of the Docker stream.  Time is   *)
(* kept as the time since the last periodic sync and cleanup, with every   *)
(* value past the interval counted as one.                                 *)
(***************************************************************************)
\* DNS_SYNC_INTERVAL and DNS_CLEANUP_INTERVAL, in ticks of the clock.
sync_interval == 2
cleanup_interval == 3

\* DNS_CLEANUP_BATCH_SIZE and DNS_CLEANUP_MAX_HOSTNAMES defaults
cleanup_batch_size == 50
cleanup_max_hostnames == 25

\* listen_for_events has been entered and has not reached its loop.
Starting == [Type |-> "", Action |-> "listen_for_events"]

\* The events the stream delivers: container events that set
\* changes_detected and events that do not.
Events ==
    {[Type |-> "container", Action |-> "start"],
     [Type |-> "container", Action |-> "die"],
     [Type |-> "container", Action |-> "exec_start"],
     [Type |-> "network", Action |-> "connect"]}

\* The container listings a synchronization of the loop finds.
LoopSnapshots ==
    {EmptyDict} \cup
    {s \in ReconcileSnapshots :
        /\ traefik \in DOMAIN s
        /\ web \in DOMAIN s => DOMAIN s[web] = {bridge}}

\* HybridDNSManager.cleanup_dns_records with the default arguments.
hybrid_cleanup_dns_records(rows_, hyb, host) ==
    IF hyb.api_dns_manager
    THEN cleanup_dns_records(rows_, cleanup_batch_size, cleanup_max_hostnames,
                             host, ApiUp)
    ELSE [rows |-> rows_, log |-> <<>>, requested |-> <<>>, removed |-> 0]

\* sync_dns_entries (when run_sync) followed by cleanup_dns_records (when
\* run_cleanup), as the body of the loop and the start of
\* listen_for_events make them.
SyncAndCleanup(run_sync, run_cleanup) ==
    \E listed \in (IF run_sync THEN LoopSnapshots ELSE {EmptyDict}) :
    \E prep \in (IF run_sync
                 THEN PreparedUpdates(get_container_networks(listed, FALSE))
                 ELSE {<<<<>>, <<>>>>}) :
    \E synced \in {IF run_sync
                   THEN hybrid_process_dns_changes(records_file, rows, prep[1], prep[2],
                                                   NoFaults, config, dns_manager)
                   ELSE [file |-> records_file, rows |-> rows, log |-> <<>>,
                         ok |-> changed]} :
    \E cleaned \in {IF run_cleanup
                    THEN hybrid_cleanup_dns_records(synced.rows, dns_manager, host_name)
                    ELSE [rows |-> synced.rows, log |-> <<>>, requested |-> <<>>,
                          removed |-> 0]} :
       /\ IF run_sync
          THEN /\ Prepare(get_container_networks(listed, FALSE), FALSE, prep)
               /\ changed' = synced.ok
          ELSE UNCHANGED <<tracker_vars, tracker_hist, listing_raised, entries_to_add,
                           entries_to_remove, returned_after, removals_emitted,
                           changed>>
       /\ records_file' = synced.file
       /\ rows' = cleaned.rows
       /\ log' = synced.log \o cleaned.log
       /\ UNCHANGED <<config, prior_ips, dns_manager, faults, peer_files,
                      thread_vars, cleanup_vars, cache_vars, post_vars, reload_vars, flannel_network>>

\* The manager main.py builds: a HybridDNSManager whose distributed_dns is
\* None and whose api_dns_manager is set.
TimersInit ==
    /\ TrackerInit
    /\ peer_files = [p \in {peer1, peer2} |-> Header]
    /\ pc = [t \in Threads |-> "idle"]
    /\ current_records = [t \in Threads |-> <<>>]
    /\ batch = [t \in Threads |-> <<>>]
    /\ host_name = "nas"
    /\ cleanup_run = NoCleanup
    /\ since_sync = sync_interval + 1
    /\ since_cleanup = cleanup_interval + 1
    /\ changes_detected = FALSE
    /\ event = Starting
    /\ listener = Listening
    /\ CacheInit
    /\ PostInit
    /\ ReloadInit
    /\ flannel_network = Flannel16
    /\ dns_manager = Manager("HybridDNSManager", FALSE, TRUE)
    /\ faults = NoFaults
    /\ rows = <<>>
    /\ config = MasterConfig
    /\ records_file = Header
    /\ entries_to_add = <<>>
    /\ entries_to_remove = <<>>
    /\ listing_raised = FALSE
    /\ changed = FALSE
    /\ log = <<>>
    /\ returned_after = [c \in Containers |-> 0]
    /\ removals_emitted = [c \in Containers |-> 0]
    /\ prior_ips = {}

\* The start of listen_for_events: the initial synchronization and, with
\* CLEANUP_ON_STARTUP, the initial cleanup.
Startup ==
    /\ event = Starting
    /\ SyncAndCleanup(TRUE, TRUE)
    /\ since_sync' = 0
    /\ since_cleanup' = 0
    /\ changes_detected' = FALSE
    /\ event' = NoEvent
    /\ UNCHANGED listener

\* Time passes.
Tick ==
    /\ since_sync' = Min(since_sync + 1, sync_interval + 1)
    /\ since_cleanup' = Min(since_cleanup + 1, cleanup_interval + 1)
    /\ UNCHANGED <<tracker_vars, tracker_hist, monitor_vars, peer_files, thread_vars,
                   cleanup_vars, changes_detected, event, listener, cache_vars, post_vars, reload_vars, flannel_network>>

\* docker_client.events() yields an event.
EventArrives ==
    /\ event = NoEvent
    /\ event' \in Events
    /\ UNCHANGED <<tracker_vars, tracker_hist, monitor_vars, peer_files, thread_vars,
                   cleanup_vars, since_sync, since_cleanup, changes_detected,
                   listener, cache_vars, post_vars, reload_vars, flannel_network>>

\* One iteration of the loop of listen_for_events over the event delivered.
HandleEvent ==
    /\ event \notin {NoEvent, Starting}
    /\ SyncAndCleanup(since_sync > sync_interval, since_cleanup > cleanup_interval)
    /\ since_sync' = IF since_sync > sync_interval THEN 0 ELSE since_sync
    /\ since_cleanup' = IF since_cleanup > cleanup_interval THEN 0 ELSE since_cleanup
    /\ changes_detected' =
          IF since_sync > sync_interval THEN FALSE
          ELSE \/ changes_detected
               \/ /\ event.Type = "container"
                  /\ event.Action \in {"start", "die", "destroy", "create"}
    /\ event' = NoEvent
    /\ UNCHANGED listener

\* The stream ends or raises: listen_for_events reconnects and calls itself.
StreamEnds ==
    /\ event /= Starting
    /\ event' = Starting
    /\ UNCHANGED <<tracker_vars, tracker_hist, monitor_vars, peer_files, thread_vars,
                   cleanup_vars, since_sync, since_cleanup, changes_detected,
                   listener, cache_vars, post_vars, reload_vars, flannel_network>>

TimersNext == Startup \/ Tick \/ EventArrives \/ HandleEvent \/ StreamEnds

\* The monitor thread runs whenever it can and time passes; nothing obliges
\* the Docker stream to deliver an event or to end.
SpecTimers ==
    /\ TimersInit
    /\ [][TimersNext]_vars
    /\ WF_vars(Startup)
    /\ WF_vars(HandleEvent)
    /\ WF_vars(Tick)

\* C20: whenever more than sync_interval has passed since the last
\* reconciliation a reconciliation eventually runs, and whenever more than
\* cleanup_interval has passed since the last cleanup a cleanup eventually
\* runs, whether or not the stream delivers another event.
C20_TimersFireWithoutEvents ==
    /\ (since_sync > sync_interval) ~> (since_sync = 0)
    /\ (since_cleanup > cleanup_interval) ~> (since_cleanup = 0)

(***************************************************************************)
(* listen_for_events with its reconnects.  Each reconnect that succeeds    *)
(* calls listen_for_events again from the frame that reconnected: from     *)
(* inside its try block when the stream had ended, from its except block   *)
(* when something had raised.  An exception leaving a frame is caught by   *)
(* the nearest frame that waits inside its try block; try_frames counts    *)
(* those frames.                                                           *)
(***************************************************************************)
MaxFrames == 2

ListenStartup == listener.at = "loop" /\ Startup

ListenEventArrives == listener.at = "loop" /\ EventArrives

ListenHandleEvent == listener.at = "loop" /\ HandleEvent

listener_unchanged ==
    <<tracker_vars, tracker_hist, monitor_vars, peer_files, thread_vars,
      cleanup_vars, since_sync, since_cleanup, changes_detected, cache_vars, post_vars, reload_vars, flannel_network>>

\* docker_client.events() is exhausted: the code after the for loop sleeps
\* and reconnects, inside the try block.
StreamEnded ==
    /\ listener.at = "loop"
    /\ listener.try_frames < MaxFrames
    /\ event /= Starting
    /\ listener' = [listener EXCEPT !.at = "try_reconnect"]
    /\ event' = NoEvent
    /\ UNCHANGED listener_unchanged

\* The stream or the loop body raises: the except block sleeps and
\* reconnects.
StreamRaised ==
    /\ listener.at = "loop"
    /\ event /= Starting
    /\ listener' = [listener EXCEPT !.at = "except_reconnect"]
    /\ event' = NoEvent
    /\ UNCHANGED listener_unchanged

\* _connect_to_docker returns (connected) or re-raises the DockerException
\* of docker.from_env().
ConnectToDocker(connected) ==
    /\ listener.at \in {"try_reconnect", "except_reconnect"}
    /\ IF connected
       THEN /\ listener' =
                  [at |-> "loop",
                   try_frames |-> IF listener.at = "try_reconnect"
                                  THEN listener.try_frames + 1
                                  ELSE listener.try_frames]
            /\ event' = Starting
       ELSE /\ listener' =
                  IF listener.at = "try_reconnect"
                  THEN [listener EXCEPT !.at = "except_reconnect"]
                  ELSE IF listener.try_frames > 0
                  THEN [at |-> "except_reconnect",
                        try_frames |-> listener.try_frames - 1]
                  ELSE [at |-> "raised", try_frames |-> 0]
            /\ UNCHANGED event
    /\ UNCHANGED listener_unchanged

Reconnected == ConnectToDocker(TRUE)

ReconnectFailed == ConnectToDocker(FALSE)

ReconnectNext ==
    \/ ListenStartup
    \/ ListenEventArrives
    \/ ListenHandleEvent
    \/ StreamEnded
    \/ StreamRaised
    \/ Reconnected
    \/ ReconnectFailed

SpecReconnect == TimersInit /\ [][ReconnectNext]_vars

\* C21: after the stream ends or raises listen_for_events keeps trying to
\* reconnect: however many reconnect attempts fail in a row, it does not
\* raise.
C21_ReconnectRetriesForever == listener.at /= "raised"

(***************************************************************************)
(* DNSCache.  Each thread makes its calls one step at a time: a step is    *)
(* one read or one write of the dict or the clock, and the other thread    *)
(* and the clock can move between two steps.  A call ends at "done" with   *)
(* its result or at "raised" with its exception.                           *)
(***************************************************************************)
MaxClock == 3

\* DNS_CACHE_TTL, in ticks of the clock.
default_ttl == 2

CacheOps == {"get", "set", "invalidate", "cleanup", "clear"}

\* The step each operation starts with.
FirstStep(op) ==
    CASE op = "get" -> "contains"
      [] op = "set" -> "store"
      [] op = "invalidate" -> "contains"
      [] op = "cleanup" -> "items"
      [] op = "clear" -> "clear"

\* get: time.time() > cache_entry['expires'], for an entry that never
\* expires.
Expired_never(cache_entry, time) == FALSE

\* get: time.time() > cache_entry['expires']
Expired(cache_entry, time) == time > cache_entry.expires

\* cleanup: v['expires'] < now
ExpiredKeys(c, time) == {k \in DOMAIN c : c[k].expires < time}

\* The dict with key bound to entry.
DictSet(c, key, entry) ==
    [k \in DOMAIN c \cup {key} |-> IF k = key THEN entry ELSE c[k]]

\* The dict without key.
DictDel(c, key) == [k \in DOMAIN c \ {key} |-> c[k]]

\* A call that has ended.
Done(call, result) ==
    [op |-> call.op, at |-> "done", key |-> call.key, result |-> result]

\* A get that has ended, with the time at which it ended.
GetDone(call, result, time) ==
    [op |-> call.op, at |-> "done", key |-> call.key, result |-> result,
     read_at |-> time]

Raised(call, exception) ==
    [op |-> call.op, at |-> "raised", key |-> call.key, result |-> exception]

cache_unchanged ==
    <<tracker_vars, tracker_hist, monitor_vars, peer_files, thread_vars,
      cleanup_vars, timer_vars, post_vars, reload_vars, flannel_network>>

\* A thread enters get(key), set(key, value, ttl), invalidate(key),
\* cleanup() or clear().
BeginCall(t, keys, values, ttls) ==
    /\ calls[t] = Idle
    /\ \E op \in CacheOps, key \in keys, value \in values, ttl \in ttls :
          calls' = [calls EXCEPT ![t] =
                      [op |-> op, at |-> FirstStep(op),
                       key |-> IF op \in {"cleanup", "clear"} THEN "" ELSE key,
                       value |-> IF op = "set" THEN value ELSE Miss,
                       ttl |-> IF op = "set" THEN ttl ELSE 0]]
    /\ UNCHANGED <<cache, now, latest, cache_unchanged>>

\* get, line 18: if key not in self.cache
GetContains(t) ==
    /\ calls[t].op = "get" /\ calls[t].at = "contains"
    /\ calls' = [calls EXCEPT ![t] =
                   IF calls[t].key \in DOMAIN cache
                   THEN [calls[t] EXCEPT !.at = "getitem"]
                   ELSE GetDone(calls[t], Miss, now)]
    /\ UNCHANGED <<cache, now, latest, cache_unchanged>>

\* get, line 21: cache_entry = self.cache[key]
GetItem(t) ==
    /\ calls[t].op = "get" /\ calls[t].at = "getitem"
    /\ calls' = [calls EXCEPT ![t] =
                   IF calls[t].key \in DOMAIN cache
                   THEN [calls[t] EXCEPT !.at = "expires",
                                         !.value = cache[calls[t].key].value,
                                         !.ttl = cache[calls[t].key].expires]
                   ELSE Raised(calls[t], "KeyError")]
    /\ UNCHANGED <<cache, now, latest, cache_unchanged>>

\* get, lines 22-27: the expiry test on cache_entry and the return.
GetExpires(t) ==
    /\ calls[t].op = "get" /\ calls[t].at = "expires"
    /\ calls' = [calls EXCEPT ![t] =
                   GetDone(calls[t],
                           IF Expired([value |-> calls[t].value,
                                       expires |-> calls[t].ttl], now)
                           THEN Miss ELSE calls[t].value,
                           now)]
    /\ UNCHANGED <<cache, now, latest, cache_unchanged>>

\* set, lines 31-37
SetStore(t) ==
    /\ calls[t].op = "set" /\ calls[t].at = "store"
    /\ cache' = DictSet(cache, calls[t].key,
                        [value |-> calls[t].value,
                         expires |-> now + (IF calls[t].ttl = 0 THEN default_ttl
                                            ELSE calls[t].ttl)])
    /\ latest' = [latest EXCEPT ![calls[t].key] = calls[t].value]
    /\ calls' = [calls EXCEPT ![t] = Done(calls[t], Miss)]
    /\ UNCHANGED <<now, cache_unchanged>>

\* invalidate, line 42: if key in self.cache
InvalidateContains(t) ==
    /\ calls[t].op = "invalidate" /\ calls[t].at = "contains"
    /\ calls' = [calls EXCEPT ![t] =
                   IF calls[t].key \in DOMAIN cache
                   THEN [calls[t] EXCEPT !.at = "delitem"]
                   ELSE Done(calls[t], "False")]
    /\ UNCHANGED <<cache, now, latest, cache_unchanged>>

\* invalidate, line 43: del self.cache[key]
InvalidateDel(t) ==
    /\ calls[t].op = "invalidate" /\ calls[t].at = "delitem"
    /\ IF calls[t].key \in DOMAIN cache
       THEN /\ cache' = DictDel(cache, calls[t].key)
            /\ calls' = [calls EXCEPT ![t] = Done(calls[t], "True")]
       ELSE /\ calls' = [calls EXCEPT ![t] = Raised(calls[t], "KeyError")]
            /\ UNCHANGED cache
    /\ UNCHANGED <<now, latest, cache_unchanged>>

\* cleanup, lines 50-52: now = time.time() and the start of the iteration
\* over self.cache.items(); over an empty dict the iteration is over at
\* once.
CleanupItems(t) ==
    /\ calls[t].op = "cleanup" /\ calls[t].at = "items"
    /\ calls' = [calls EXCEPT ![t] =
                   IF DOMAIN cache = {} THEN Done(calls[t], "0")
                   ELSE [op |-> "cleanup", at |-> "iterate", key |-> "", now |-> now,
                         keys |-> DOMAIN cache]]
    /\ UNCHANGED <<cache, now, latest, cache_unchanged>>

\* cleanup, lines 51-54: the rest of the iteration; a dict whose keys
\* changed since the iteration started raises RuntimeError.
CleanupIterate(t) ==
    /\ calls[t].op = "cleanup" /\ calls[t].at = "iterate"
    /\ calls' = [calls EXCEPT ![t] =
                   IF DOMAIN cache /= calls[t].keys
                   THEN Raised(calls[t], "RuntimeError")
                   ELSE IF ExpiredKeys(cache, calls[t].now) = {}
                   THEN Done(calls[t], "0")
                   ELSE [op |-> "cleanup", at |-> "delitem", key |-> "",
                         expired_keys |-> ExpiredKeys(cache, calls[t].now)]]
    /\ UNCHANGED <<cache, now, latest, cache_unchanged>>

\* cleanup, lines 56-57: del self.cache[key] for one of expired_keys.
CleanupDel(t) ==
    /\ calls[t].op = "cleanup" /\ calls[t].at = "delitem"
    /\ \E key \in calls[t].expired_keys :
          IF key \in DOMAIN cache
          THEN /\ cache' = DictDel(cache, key)
               /\ calls' = [calls EXCEPT ![t] =
                              IF calls[t].expired_keys = {key}
                              THEN Done(calls[t], "n")
                              ELSE [calls[t] EXCEPT !.expired_keys = @ \ {key}]]
          ELSE /\ calls' = [calls EXCEPT ![t] = Raised(calls[t], "KeyError")]
               /\ UNCHANGED cache
    /\ UNCHANGED <<now, latest, cache_unchanged>>

\* clear, line 67
CacheClear(t) ==
    /\ calls[t].op = "clear" /\ calls[t].at = "clear"
    /\ cache' = [k \in {} |-> k]
    /\ calls' = [calls EXCEPT ![t] = Done(calls[t], Miss)]
    /\ UNCHANGED <<now, latest, cache_unchanged>>

\* The call returns, or its exception reaches the caller.
CallReturns(t) ==
    /\ calls[t].at \in {"done", "raised"}
    /\ calls' = [calls EXCEPT ![t] = Idle]
    /\ UNCHANGED <<cache, now, latest, cache_unchanged>>

ClockAdvances ==
    /\ now < MaxClock
    /\ now' = now + 1
    /\ UNCHANGED <<cache, calls, latest, cache_unchanged>>

CacheStep(t) ==
    \/ GetContains(t) \/ GetItem(t) \/ GetExpires(t)
    \/ SetStore(t)
    \/ InvalidateContains(t) \/ InvalidateDel(t)
    \/ CleanupItems(t) \/ CleanupIterate(t) \/ CleanupDel(t)
    \/ CacheClear(t)
    \/ CallReturns(t)

\* One caller of the cache.
CacheNext ==
    \/ BeginCall("reconcile", CacheKeys, {"v1", "v2"}, {0, 1})
    \/ CacheStep("reconcile")
    \/ ClockAdvances

SpecCache == Init /\ [][CacheNext]_vars

\* Two callers of the singleton cache.
CacheThreadsNext ==
    \/ \E t \in Threads : BeginCall(t, {"all_dns_entries"}, {"v1"}, {0, 1})
    \/ \E t \in Threads : CacheStep(t)
    \/ ClockAdvances

SpecCacheThreads == Init /\ [][CacheThreadsNext]_vars

\* C22: with one caller, a get that returns a value found an entry of its
\* key whose expiry time had not passed and returns the value of the last
\* set of that key; and a get of a key whose stored entry has expired
\* returns a miss, evicted or not.
C22_GetNeverReturnsExpired ==
    LET call == calls["reconcile"]
    IN (call.op = "get" /\ call.at = "done") =>
          /\ call.result /= Miss =>
                /\ call.key \in DOMAIN cache
                /\ cache[call.key].expires >= call.read_at
                /\ call.result = latest[call.key]
          /\ (call.key \in DOMAIN cache /\ cache[call.key].expires < call.read_at)
                => call.result = Miss

\* C22 witness: a get has returned a miss for a key whose expired entry is
\* still stored, after two sets of that key.
C22_Witness ==
    LET call == calls["reconcile"]
    IN /\ call.op = "get" /\ call.at = "done"
       /\ call.result = Miss
       /\ call.key \in DOMAIN cache
       /\ cache[call.key].expires < call.read_at
       /\ latest[call.key] = "v2"

\* C23: with two threads calling the cache, no call raises, and a get that
\* returns a value returns one that a set of that key has stored.
C23_ConcurrentCallsNeverRaise ==
    \A t \in Threads :
        /\ calls[t].at /= "raised"
        /\ (calls[t].op = "get" /\ calls[t].at = "done" /\ calls[t].result /= Miss)
              => calls[t].result = latest[calls[t].key]

(***************************************************************************)
(* DNSReplicationHandler.do_POST on a peer.  A request is its path split   *)
(* at '/', its Content-Length, what its body is (a JSON object, another    *)
(* JSON value, text that is not JSON, bytes that are not UTF-8) and, for   *)
(* an object, what data.get gives for 'hostname', 'ip' and 'network_name'  *)
(* (None, or "" for the ip, when the key is absent).                       *)
(***************************************************************************)
\* _process_dns_action(action, data) for any action and data; the file
\* calls and the reload of the manager meet the faults of plan.
process_dns_action_on(file, action, data, plan) ==
    LET acc == Acc(file, <<>>, 0, FALSE)
        hostname == data.hostname
        ip == data.ip
        network_name == data.network_name
    IN IF Falsy(hostname) THEN [acc EXCEPT !.ok = FALSE]
       ELSE IF action = "add"
       THEN IF ip = "" THEN [acc EXCEPT !.ok = FALSE]
            ELSE add_container_record(acc, hostname, ip, network_name, plan,
                                      PeerConfig)
       ELSE IF action = "remove"
       THEN remove_container_record(acc, hostname, network_name, plan, PeerConfig)
       ELSE [acc EXCEPT !.ok = FALSE]

\* do_POST: the status sent, the records file afterwards, and whether
\* _process_dns_action was reached and returned True.
do_POST(file, req, plan) ==
    LET answer(status) == [status |-> status, file |-> file, result |-> FALSE]
    IN IF Len(req.path) < 2 \/ req.path[1] /= "dns" THEN answer(400)
       ELSE IF req.content_length = 0 THEN answer(400)
       ELSE IF req.body = "not_utf8" THEN answer(500)
       ELSE IF req.body = "not_json" THEN answer(400)
       ELSE IF req.body /= "object" THEN answer(500)
       ELSE With(process_dns_action_on(file, req.path[2], req.data, plan),
                 LAMBDA done :
                 [status |-> IF done.ok THEN 200 ELSE 500, file |-> done.file,
                  result |-> done.ok])

\* The paths, lengths, bodies and keys of the requests a peer receives.
RequestPaths ==
    {<<"dns", "add">>, <<"dns", "remove">>, <<"dns", "update">>, <<"dns">>,
     <<"health">>}

RequestData ==
    [hostname : {None, web}, ip : {"", "10.0.0.2", "10.244.1.5"},
     network_name : {None, app_net}]

Requests ==
    {[path |-> p, content_length |-> 0, body |-> "", data |-> NoData] :
        p \in RequestPaths}
    \cup {[path |-> p, content_length |-> 1, body |-> b, data |-> NoData] :
             p \in RequestPaths, b \in {"not_json", "not_utf8", "array"}}
    \cup {[path |-> p, content_length |-> 1, body |-> "object", data |-> d] :
             p \in RequestPaths, d \in RequestData}

PostFaults == {NoFaults, [NoFaults EXCEPT !.reload_ok = FALSE]}

PeerInit ==
    /\ TrackerInit
    /\ OtherInit
    /\ dns_manager = Manager("DistributedDNSManager", FALSE, FALSE)
    /\ faults = NoFaults
    /\ rows = <<>>
    /\ config = PeerConfig
    /\ records_file = Header
    /\ entries_to_add = <<>>
    /\ entries_to_remove = <<>>
    /\ listing_raised = FALSE
    /\ changed = FALSE
    /\ log = <<>>
    /\ returned_after = [c \in Containers |-> 0]
    /\ removals_emitted = [c \in Containers |-> 0]
    /\ prior_ips = {}

\* The server handles one POST.
HandlePost ==
    /\ \E req \in Requests, plan \in PostFaults :
          \E sent \in {do_POST(records_file, req, plan)} :
             /\ request' = req
             /\ response' = sent.status
             /\ records_file' = sent.file
             /\ changed' = sent.result
             /\ faults' = plan
    /\ UNCHANGED <<tracker_vars, tracker_hist, config, entries_to_add,
                   entries_to_remove, listing_raised, log, returned_after,
                   removals_emitted, prior_ips, dns_manager, rows, peer_files,
                   thread_vars, cleanup_vars, timer_vars, cache_vars,
                   reload_vars, flannel_network>>

SpecPost == PeerInit /\ [][HandlePost]_vars

\* C24: for every POST, a body that is not valid JSON is answered with
\* 400, an action other than add or remove with 404, a failure of the
\* dispatcher with 500, and 200 is sent exactly when the dispatcher
\* reported success for the batch of the one record.
C24_StatusCodes ==
    response /= 0 =>
        LET handled == /\ Len(request.path) >= 2 /\ request.path[1] = "dns"
                       /\ request.content_length > 0
        IN /\ (handled /\ request.body = "not_json") => response = 400
           /\ (handled /\ request.body = "object"
                  /\ request.path[2] \notin {"add", "remove"}) => response = 404
           /\ (handled /\ request.body = "object"
                  /\ request.path[2] \in {"add", "remove"} /\ ~changed)
                 => response = 500
           /\ response = 200 <=> changed

(***************************************************************************)
(* The names under which one attachment of a container is recorded.  A     *)
(* new container with one network is reconciled: prepare_dns_updates makes *)
(* its entries, which are handed to the File path (process_batch_changes   *)
(* on an empty records file) and to the REST path (process_dns_changes on  *)
(* an OPNsense without rows).                                              *)
(***************************************************************************)
\* Network names Docker can report, among them those of the examples.
NetworkNames ==
    {<<>>, bridge, app_net,
     <<"f", "r", "o", "n", "t", "e", "n", "d", "_", "n", "e", "t">>,
     <<"_", "d", "e", "f", "a", "u", "l", "t">>,
     <<"a", "!", "@", "#", "$", "b">>,
     <<"f", "l", "a", "n", "n", "e", "l", "_", "n", "e", "t">>,
     <<"x", "_", "n", "e", "t", "_", "d", "e", "f", "a", "u", "l", "t">>,
     <<"a", "-", "-", "b">>,
     <<"-", "-", "-">>,
     <<"-", "a">>,
     <<"b", "_">>,
     <<"m", "y", ".", "l", "a", "n">>,
     <<"A", "1">>}

NamesInit ==
    /\ TrackerInit
    /\ ComponentsInit
    /\ flannel_network \in {NoFlannel, Flannel16}
    /\ dns_manager = Manager("HybridDNSManager", TRUE, TRUE)
    /\ faults = NoFaults
    /\ rows = <<>>
    /\ config = PeerConfig
    /\ records_file = Header
    /\ entries_to_add = <<>>
    /\ entries_to_remove = <<>>
    /\ listing_raised = FALSE
    /\ changed = FALSE
    /\ log = <<>>
    /\ returned_after = [c \in Containers |-> 0]
    /\ removals_emitted = [c \in Containers |-> 0]
    /\ prior_ips = {}

\* One new container with one network: its entries, the add_record calls
\* of the File path and the addHostOverride POSTs of the REST path.
AddRecords ==
    /\ \E container \in Containers, network_name \in NetworkNames, ip \in IPs :
          \E to_add \in {NetEntries(container, [n \in {network_name} |-> ip],
                                    <<network_name>>)} :
          \E filed \in {process_batch_changes(Acc(Header, <<>>, 0, FALSE), to_add,
                                              <<>>, NoFaults, config)},
             posted \in {rest_process_dns_changes(<<>>, <<>>, to_add, <<>>, ApiUp)} :
             /\ entries_to_add' = to_add
             /\ records_file' = filed.file
             /\ rows' = posted.rows
             /\ log' = filed.log \o posted.log
             /\ changed' = filed.ok
    /\ UNCHANGED <<tracker_vars, tracker_hist, config, entries_to_remove,
                   listing_raised, returned_after, removals_emitted, prior_ips,
                   dns_manager, faults, other_vars>>

SpecNames == NamesInit /\ [][AddRecords]_vars

\* The addition the last reconciliation was about: the first entry.
Addition == entries_to_add[1]

\* The File path wrote the record of hostname in domain with ip.
Written(hostname, domain, ip) ==
    \E i \in DOMAIN log :
        /\ log[i].ev = "add_record" /\ log[i].ok
        /\ log[i].hostname = hostname /\ log[i].domain = domain /\ log[i].ip = ip

\* C25: for every (container, network, ip) addition the File path writes
\* a record in the base domain always, a record in a network subdomain if
\* and only if the network name is non-empty and not bridge, and a record
\* in flannel.<base> if and only if the ip lies inside the detected
\* flannel CIDR.
C25_FileDomains ==
    entries_to_add /= <<>> =>
        LET name == Addition.network_name
        IN /\ Written(Addition.hostname, docker_local, Addition.ip)
           /\ Written(Addition.hostname,
                      SubDomain(sanitize_network_name_distributed(name)),
                      Addition.ip)
                <=> (name /= <<>> /\ name /= bridge)
           /\ Written(Addition.hostname, SubDomain(flannel), Addition.ip)
                <=> (flannel_network /= NoFlannel /\ Addition.ip \in FlannelIPs)

\* A label that is non-empty, uses only [A-Za-z0-9-] and has no leading,
\* trailing or doubled '-'.
WellFormedLabel(label) ==
    /\ label /= <<>>
    /\ \A i \in DOMAIN label : label[i] \in NameChars
    /\ label[1] /= "-" /\ label[Len(label)] /= "-"
    /\ \A i \in 1..(Len(label) - 1) : ~(label[i] = "-" /\ label[i + 1] = "-")

\* C26: for every network name, the sanitized name (of the File path's
\* _sanitize_network_name and of the REST path's sanitize_network_name) is
\* non-empty, uses only [A-Za-z0-9-], has no leading, trailing or doubled
\* '-', and "_default" gives "network", "frontend_net" gives "frontend",
\* "a!@#$b" gives "a-b".
C26_SanitizedNames ==
    entries_to_add /= <<>> =>
        LET name == Addition.network_name
        IN \A sanitized \in {sanitize_network_name_distributed(name),
                              sanitize_network_name(name)} :
              /\ WellFormedLabel(sanitized)
              /\ name = <<"_", "d", "e", "f", "a", "u", "l", "t">>
                    => sanitized = network
              /\ name = <<"f", "r", "o", "n", "t", "e", "n", "d", "_", "n", "e", "t">>
                    => sanitized = <<"f", "r", "o", "n", "t", "e", "n", "d">>
              /\ name = <<"a", "!", "@", "#", "$", "b">>
                    => sanitized = <<"a", "-", "b">>

\* The (hostname, domain, ip) of the successful calls of one kind.
Added(ev) ==
    {<<log[i].hostname, log[i].domain, log[i].ip>> :
        i \in {j \in DOMAIN log : log[j].ev = ev /\ log[j].ok}}

\* C27: for a critical container, the set of (fqdn, ip) records the REST
\* path adds for a batch equals the set the File path adds for the same
\* batch.
C27_RestAddsWhatFileAdds ==
    (entries_to_add /= <<>> /\ is_critical_record(Addition.hostname)) =>
        Added("addHostOverride") = Added("add_record")

(***************************************************************************)
(* Properties of update_state and get_changes                              *)
(***************************************************************************)
\* The containers present in the previous and in the current snapshot.
Retained == DOMAIN previous_networks \cap DOMAIN container_networks

\* C28: update_state(S) returns true if and only if the set of container
\* names of S differs from that of the previous current snapshot or some
\* container present in both has a different network map, if and only if
\* the ChangeSet that get_changes then returns is non-empty; update_state(S)
\* right after update_state(S) returns false with an empty ChangeSet.
C28_TrueIffSnapshotsDiffer ==
    last_call /= "None" =>
        /\ has_changes
             <=> \/ DOMAIN container_networks /= DOMAIN previous_networks
                 \/ \E c \in Retained : container_networks[c] /= previous_networks[c]
        /\ has_changes <=> changes /= NoChanges
        /\ container_networks = previous_networks
             => ~has_changes /\ changes = NoChanges

\* C28 witness: the same snapshot, with containers, was passed twice in a
\* row; the second call returned false with an empty ChangeSet.
C28_Witness ==
    /\ last_call = "dict"
    /\ container_networks = previous_networks
    /\ \E c \in DOMAIN container_networks : container_networks[c] /= EmptyDict
    /\ ~has_changes
    /\ changes = NoChanges

\* C29: when a container present in both snapshots keeps a network whose
\* ip changes from p to q, get_changes reports for that container both
\* added[net] = q and removed[net] = p.
C29_IpChangeAddedAndRemoved ==
    \A c \in Retained :
        \A net \in DOMAIN previous_networks[c] \cap DOMAIN container_networks[c] :
            previous_networks[c][net] /= container_networks[c][net]
            => /\ c \in DOMAIN changes.network_changes
               /\ net \in DOMAIN changes.network_changes[c].added
               /\ changes.network_changes[c].added[net] = container_networks[c][net]
               /\ net \in DOMAIN changes.network_changes[c].removed
               /\ changes.network_changes[c].removed[net] = previous_networks[c][net]

\* C30: in every ChangeSet, added_containers, removed_containers and the
\* keys of network_changes are pairwise disjoint, and a container is a key
\* of network_changes if and only if it is in the previous and in the
\* current snapshot and its two network maps differ.
C30_ChangeSetPartition ==
    /\ changes.added_containers \cap changes.removed_containers = {}
    /\ changes.added_containers \cap DOMAIN changes.network_changes = {}
    /\ changes.removed_containers \cap DOMAIN changes.network_changes = {}
    /\ \A c \in Containers :
          c \in DOMAIN changes.network_changes
          <=> (c \in Retained /\ previous_networks[c] /= container_networks[c])

\* C30 witness: a ChangeSet with a removed container beside a retained
\* container that is a key of network_changes.
C30_Witness ==
    /\ last_call = "dict"
    /\ changes.removed_containers /= {}
    /\ \E c \in Retained : c \in DOMAIN changes.network_changes

(***************************************************************************)
(* The tracker constructed with each STATE_CLEANUP_CYCLES of 1..MaxCycles. *)
(***************************************************************************)
GoneInit ==
    /\ TrackerFieldsInit
    /\ cleanup_cycles \in 1..MaxCycles
    /\ MonitorInit

SpecGone == GoneInit /\ [][TrackerNext]_vars

FirstReconcile ==
    /\ last_call = "init"
    /\ \E listed \in ReconcileSnapshots, plan \in FaultPlans :
          sync_batch(listed, FALSE, plan)

\* A later sync_dns_entries: the listing is what it was, the backend works.
TickUnchanged ==
    /\ last_call /= "init"
    /\ sync_batch(container_networks, FALSE, NoFaults)

RetryNext == FirstReconcile \/ TickUnchanged

SpecRetry == Init /\ [][RetryNext]_vars /\ WF_vars(TickUnchanged)

\* The dispatch in progress made an add_record call for the container
\* that failed.
FailedAdd(c) ==
    \E i \in DOMAIN log :
        log[i].ev = "add_record" /\ log[i].hostname = c /\ ~log[i].ok

\* The file holds the base-domain record of the container.
RecordPresent(c) == LinesNamed(c \o Dot \o docker_local) /= {}

\* C32: if applying a batch fails for some record and the running
\* containers and their networks then stay unchanged, a later
\* reconciliation dispatches the record again: once the backend works
\* again, the record is eventually present in it.
C32_FailedRecordRetried ==
    \A c \in Containers :
        (FailedAdd(c) /\ ~RecordPresent(c)) ~> RecordPresent(c)

\* The add_record call of the thread has returned True and its batch has
\* not yet reloaded Unbound.
AddReturned(t) == pc[t] = "reload_unbound"

\* C33: no update to the zone file is lost under concurrency: when the
\* reconcile thread and a handler of the replication server each run
\* add_record for different (hostname, domain) pairs, both records are in
\* the file once both calls have returned success.
C33_NoLostUpdate ==
    (/\ AddReturned("reconcile") /\ AddReturned("handler")
     /\ batch["reconcile"].hostname /= batch["handler"].hostname)
    => \A t \in Threads :
          \E i \in DOMAIN records_file :
              records_file[i] = RecordLine(batch[t].hostname, docker_local, batch[t].ip)

(***************************************************************************)
(* DNSManager.remove_specific_dns, attempt by attempt.  responses[k] is    *)
(* what the k-th delHostOverride POST meets: the row is deleted, the       *)
(* endpoint is not found, curl times out (code 28), another answer that    *)
(* does not report a deletion, or an exception of the client.              *)
(***************************************************************************)
max_retries == 2

Responses == {"deleted", "Endpoint not found", "timeout", "failed", "raised"}

\* The while loop: the sleeps and POSTs made from attempt retry_count + 1
\* on, and success.
RECURSIVE RemoveAttempts(_, _, _)
RemoveAttempts(responses, retry_count, lg) ==
    IF ~(retry_count <= max_retries) THEN [log |-> lg, ok |-> FALSE]
    ELSE LET answer == responses[retry_count + 1]
             slept == IF retry_count > 0
                      THEN Append(lg, [ev |-> "sleep",
                                       response |-> "",
                                       seconds |-> 5 * (2 ^ (retry_count - 1))])
                      ELSE lg
             posted == Append(slept, [ev |-> "delHostOverride",
                                      response |-> answer, seconds |-> 0])
         IN IF answer \in {"Endpoint not found", "deleted"}
            THEN [log |-> posted, ok |-> TRUE]
            ELSE RemoveAttempts(responses, retry_count + 1, posted)

\* remove_specific_dns: the loop, then, after a success, the cache
\* invalidation, the reconfiguration unless skipped, and the verification
\* when verification_delay > 0 (verified is what it finds).
remove_specific_dns_attempts(responses, skip_reconfigure, verified) ==
    With(RemoveAttempts(responses, 0, <<>>), LAMBDA tried :
       IF ~tried.ok THEN tried
       ELSE LET step(ev) == [ev |-> ev, response |-> "", seconds |-> 0]
                invalidated == Append(tried.log, step("invalidate"))
                reconfigured == IF skip_reconfigure THEN invalidated
                                ELSE Append(invalidated, step("reconfigure_unbound"))
            IN [log |-> reconfigured, ok |-> verified /= "still exists"])

\* One remove_specific_dns call.
RemoveSpecificDns ==
    /\ \E responses \in [1..(max_retries + 1) -> Responses],
          skip_reconfigure \in BOOLEAN,
          verified \in {"off", "removed", "still exists", "raised"} :
          \E res \in {remove_specific_dns_attempts(responses, skip_reconfigure,
                                                    verified)} :
             /\ log' = res.log
             /\ changed' = res.ok
    /\ UNCHANGED <<tracker_vars, tracker_hist, config, records_file, entries_to_add,
                   entries_to_remove, listing_raised, returned_after,
                   removals_emitted, prior_ips, dns_manager, rows, faults,
                   other_vars>>

SpecRemove == RestInit /\ [][RemoveSpecificDns]_vars

\* The positions of the POSTs in the log of the call.
PostsAt == {i \in DOMAIN log : log[i].ev = "delHostOverride"}

Accepted == {"deleted", "Endpoint not found"}

\* The attempts that may have timed out: the curl error 28 answer, and an
\* exception of the client (which its own timeout raises).
TimedOut == {"timeout", "raised"}

\* C34: remove_specific_dns makes at most three delHostOverride POSTs,
\* waits 5 s before the second and 10 s before the third, re-attempts only
\* after a timeout and never after a response that reports another
\* failure, stops at the first attempt that returns "deleted" or "Endpoint
\* not found", and returns true exactly when such an attempt occurred.
\* An exception of the client is counted as a timeout.
C34_RetriesOnlyAfterTimeout ==
    /\ Cardinality(PostsAt) <= 3
    /\ \A i \in PostsAt :
          i > 1 => /\ log[i - 1].ev = "sleep"
                   /\ log[i - 1].seconds = IF i = 3 THEN 5 ELSE 10
                   /\ log[i - 2].ev = "delHostOverride"
                   /\ log[i - 2].response \in TimedOut
    /\ \A i, j \in PostsAt : (i < j) => log[i].response \notin Accepted
    /\ changed <=> \E i \in PostsAt : log[i].response \in Accepted

\* C35: in DNSManager.process_dns_changes, whenever a REST record mutation
\* of the batch succeeded (an add, a requested removal, or the deletion of
\* an obsolete entry by update_dns / _clean_old_entries),
\* reconfigure_unbound is invoked before the batch returns.
C35_ReloadAfterAnyMutation ==
    (dns_manager.class = "DNSManager" /\ log /= <<>>) =>
        ((\E i \in DOMAIN log : log[i].ev \in RestWrites /\ log[i].ok)
            => \E j \in DOMAIN log : log[j].ev = "reconfigure_unbound")


(***************************************************************************)
(* DNSManager.reconfigure_unbound: reload requests, each a reconfigure or a *)
(* restart of the Unbound service of the appliance.                        *)
(***************************************************************************)
\* RESTART_THRESHOLD and RESTART_INTERVAL, scaled down.
restart_threshold == 3
restart_interval == 1

\* The reload requests of one run.
MaxRequests == 7

\* What a POST to unbound/service/reconfigure or restart is answered:
\* a response other than an error, an error response, or an exception.
PostAnswers == {"ok", "error", "raised"}

\* The reconfigure thread may also still be alive when join returns.
ReconfigureAnswers == PostAnswers \cup {"timeout"}

\* What GET unbound/service/status is answered at time t.
StatusAnswers(t) ==
    {[raised |-> r, running |-> u, has_start_time |-> h, start_time |-> st] :
        r \in BOOLEAN, u \in BOOLEAN, h \in BOOLEAN, st \in 0..t}

\* DNSManager._get_unbound_uptime at time t: None unless the status says
\* running and carries a start_time that is a number and truthy.
get_unbound_uptime(status, t) ==
    IF ~status.raised /\ status.running /\ status.has_start_time
          /\ status.start_time /= 0
    THEN [known |-> TRUE, value |-> t - status.start_time]
    ELSE NoUptime

\* The reload statistics and the POSTs of the request in progress.
ReloadAcc(updates, last, posts, ok) ==
    [updates |-> updates, last |-> last, posts |-> posts, ok |-> ok]

ServiceCall(endpoint, answer) == [endpoint |-> endpoint, answer |-> answer]

\* DNSManager._restart_unbound at time t.
restart_unbound(acc, t, answer) ==
    LET posts == Append(acc.posts, ServiceCall("restart", answer))
    IN  IF answer = "ok" THEN ReloadAcc(0, t, posts, TRUE)
        ELSE ReloadAcc(acc.updates, acc.last, posts, FALSE)

\* DNSManager._reconfigure_with_timeout at time t.
reconfigure_with_timeout(acc, t, answer, restart_answer) ==
    LET posted == [acc EXCEPT !.posts = Append(@, ServiceCall("reconfigure", answer))]
    IN  IF answer = "timeout" THEN restart_unbound(posted, t, restart_answer)
        ELSE IF answer = "raised" THEN restart_unbound(posted, t, restart_answer)
        ELSE [posted EXCEPT !.ok = (answer = "ok")]

\* reconfigure_unbound forcing the restart only after the threshold is
\* exceeded.
reconfigure_unbound_restarts_late(updates, last, t, status, answer, restart_answer) ==
    LET elapsed == t - last
        counted == ReloadAcc(updates + 1, t, <<>>, FALSE)
        unbound_uptime == get_unbound_uptime(status, t)
        should_restart ==
            IF counted.updates > restart_threshold THEN TRUE
            ELSE IF unbound_uptime.known /\ unbound_uptime.value > restart_interval
            THEN TRUE
            ELSE ~unbound_uptime.known /\ elapsed > restart_interval
    IN  IF should_restart THEN restart_unbound(counted, t, restart_answer)
        ELSE reconfigure_with_timeout(counted, t, answer, restart_answer)

\* DNSManager.reconfigure_unbound at time t, from the reload statistics.
reconfigure_unbound_at(updates, last, t, status, answer, restart_answer) ==
    LET elapsed == t - last
        counted == ReloadAcc(updates + 1, t, <<>>, FALSE)
        unbound_uptime == get_unbound_uptime(status, t)
        should_restart ==
            IF counted.updates >= restart_threshold THEN TRUE
            ELSE IF unbound_uptime.known /\ unbound_uptime.value > restart_interval
            THEN TRUE
            ELSE ~unbound_uptime.known /\ elapsed > restart_interval
    IN  IF should_restart THEN restart_unbound(counted, t, restart_answer)
        ELSE reconfigure_with_timeout(counted, t, answer, restart_answer)

Restarted(posts) ==
    \E i \in DOMAIN posts : posts[i] = ServiceCall("restart", "ok")

RestartFailed(posts) ==
    \E i \in DOMAIN posts :
        posts[i].endpoint = "restart" /\ posts[i].answer /= "ok"

\* One reload request.
ReconfigureUnbound ==
    /\ reload.n < MaxRequests
    /\ \E status \in StatusAnswers(now), answer \in ReconfigureAnswers,
          restart_answer \in PostAnswers :
          \E done \in {reconfigure_unbound_at(updates_since_restart,
                          last_reconfigure_time, now, status, answer,
                          restart_answer)} :
             /\ updates_since_restart' = done.updates
             /\ last_reconfigure_time' = done.last
             /\ reload' =
                   [n |-> reload.n + 1,
                    count |-> updates_since_restart + 1,
                    uptime |-> get_unbound_uptime(status, now),
                    elapsed |-> now - last_reconfigure_time,
                    posts |-> done.posts,
                    result |-> done.ok,
                    since |-> IF Restarted(done.posts) THEN 0
                              ELSE reload.since + 1,
                    restarts_ok |-> reload.restarts_ok
                                       /\ ~RestartFailed(done.posts)]
    /\ UNCHANGED <<tracker_vars, tracker_hist, monitor_vars, peer_files,
                   thread_vars, cleanup_vars, timer_vars, cache_vars,
                   post_vars, flannel_network>>

ReloadNext == ReconfigureUnbound \/ ClockAdvances

SpecReload == RestInit /\ [][ReloadNext]_vars

\* The request decided for a restart, rather than for a reconfigure.
RestartIssued == reload.posts[1].endpoint = "restart"

\* C36: on each reload request reconfigure_unbound issues a restart if
\* updates_since_restart, counting the request, has reached
\* restart_threshold or the uptime of the appliance exceeds
\* restart_interval, and a reconfigure otherwise; a successful restart
\* resets updates_since_restart to 0, so that while restarts succeed the
\* counter is within 0..restart_threshold-1 after every request and exactly
\* every restart_threshold-th request is a restart.
C36_RestartEveryThreshold ==
    reload.n > 0 =>
        /\ RestartIssued <=>
              \/ reload.count >= restart_threshold
              \/ reload.uptime.known /\ reload.uptime.value > restart_interval
        /\ Restarted(reload.posts) => updates_since_restart = 0
        /\ reload.restarts_ok =>
              /\ updates_since_restart \in 0..(restart_threshold - 1)
              /\ RestartIssued <=> reload.n % restart_threshold = 0

\* C36, amended: a restart is issued exactly if the counter, counting the
\* request, has reached restart_threshold, or the status call yielded an
\* uptime above restart_interval, or it yielded none and more than
\* restart_interval has passed since the previous reload request; a
\* successful restart resets the counter to 0; the counter always equals
\* the number of requests since the last successful restart, and while
\* restarts succeed it is within 0..restart_threshold-1 after every
\* request, so at most restart_threshold-1 requests in a row end without a
\* restart.
C36_RestartAtThresholdOrInterval ==
    reload.n > 0 =>
        /\ RestartIssued <=>
              \/ reload.count >= restart_threshold
              \/ reload.uptime.known /\ reload.uptime.value > restart_interval
              \/ ~reload.uptime.known /\ reload.elapsed > restart_interval
        /\ Restarted(reload.posts) => updates_since_restart = 0
        /\ updates_since_restart = reload.since
        /\ reload.restarts_ok =>
              /\ updates_since_restart \in 0..(restart_threshold - 1)
              /\ reload.since < restart_threshold

\* C36: the request that brings the counter to restart_threshold restarts
\* the service and the counter is back at 0.
C36_Witness ==
    /\ reload.n > 0
    /\ reload.count = restart_threshold
    /\ ~reload.uptime.known
    /\ reload.elapsed = 0
    /\ reload.posts = <<ServiceCall("restart", "ok")>>
    /\ updates_since_restart = 0

\* C37: whenever the reconfigure call does not succeed - it is answered an
\* error response, raises, or does not complete within the extended
\* reconfigure timeout - a restart is issued before the reload request
\* returns.
C37_RestartAfterFailedReconfigure ==
    (reload.n > 0 /\ reload.posts[1].endpoint = "reconfigure"
        /\ reload.posts[1].answer /= "ok")
        => \E i \in DOMAIN reload.posts : reload.posts[i].endpoint = "restart"


(***************************************************************************)
(* DNSManager and its DNSCache: get_all_dns_entries, update_dns and        *)
(* remove_specific_dns called one after the other, with the cache between  *)
(* them.                                                                   *)
(***************************************************************************)
\* The cache key of the list of host overrides.
all_dns_entries == "all_dns_entries"

NoHit == [hit |-> FALSE, value |-> <<>>]

\* DNSCache.get at time t
cache_get(c, key, t) ==
    IF key \notin DOMAIN c THEN NoHit
    ELSE IF Expired(c[key], t) THEN NoHit
    ELSE [hit |-> TRUE, value |-> c[key].value]

\* DNSCache.set at time t
cache_set(c, key, value, t) ==
    DictSet(c, key, [value |-> value, expires |-> t + default_ttl])

\* DNSCache.invalidate that leaves the entry in the dict.
cache_invalidate_keeps_entry(c, key) == c

\* DNSCache.invalidate
cache_invalidate(c, key) ==
    IF key \in DOMAIN c THEN DictDel(c, key) ELSE c

\* The appliance, the cache, the clock, the calls made and the value
\* returned, during one call of the manager.
CachedAcc(rows_, c, t, lg) ==
    [rows |-> rows_, cache |-> c, t |-> t, log |-> lg, ok |-> FALSE,
     entries |-> <<>>]

ApiCall(ev, ok) == Event(ev, <<>>, <<>>, "", ok, FALSE)

\* DNSManager.get_all_dns_entries: entries becomes the list returned.
get_all_dns_entries_cached(acc, force_refresh, fetch_ok) ==
    LET cached_entries ==
            IF force_refresh THEN NoHit
            ELSE cache_get(acc.cache, all_dns_entries, acc.t)
    IN  IF cached_entries.hit /\ cached_entries.value /= <<>>
        THEN [acc EXCEPT !.entries = cached_entries.value]
        ELSE IF ~fetch_ok
        THEN [acc EXCEPT !.entries = <<>>,
                         !.log = Append(@, ApiCall("searchHostOverride", FALSE))]
        ELSE [acc EXCEPT
                !.entries = get_all_dns_entries(acc.rows),
                !.cache = cache_set(@, all_dns_entries,
                                    get_all_dns_entries(acc.rows), acc.t),
                !.log = Append(@, ApiCall("searchHostOverride", TRUE))]

\* DNSManager.remove_specific_dns, with its verification step.
remove_specific_dns_verified(acc, uuid, hostname, domain, ip, skip_reconfigure,
                             verification_delay, api, fetch_ok) ==
    IF uuid \notin api.del_failing /\ \E i \in DOMAIN acc.rows : acc.rows[i].uuid = uuid
    THEN LET deleted ==
                 [acc EXCEPT
                    !.rows = SelectSeq(@, LAMBDA r : r.uuid /= uuid),
                    !.log = Append(@, Event("delHostOverride", hostname, domain,
                                            ip, TRUE, FALSE)),
                    !.cache = cache_invalidate(@, all_dns_entries)]
             reloaded ==
                 IF skip_reconfigure THEN deleted
                 ELSE [deleted EXCEPT
                         !.log = Append(@, ApiCall("reconfigure_unbound", TRUE))]
         IN  IF verification_delay > 0
             THEN With(get_all_dns_entries_cached(
                          [reloaded EXCEPT !.t = @ + verification_delay],
                          TRUE, fetch_ok),
                       LAMBDA fetched :
                          [fetched EXCEPT !.ok =
                              ~\E i \in DOMAIN fetched.entries :
                                   fetched.entries[i].uuid = uuid])
             ELSE [reloaded EXCEPT !.ok = TRUE]
    ELSE [acc EXCEPT
            !.log = @ \o [k \in 1..(max_retries + 1) |->
                             Event("delHostOverride", hostname, domain, ip,
                                   FALSE, FALSE)],
            !.ok = FALSE]

\* The loop of _clean_old_entries over the obsolete entries.
RECURSIVE CleanLoop(_, _, _, _, _)
CleanLoop(acc, entries, verification_delay, api, fetch_ok) ==
    IF entries = <<>> THEN acc
    ELSE LET e == entries[1]
         IN With(remove_specific_dns_verified(acc, e.uuid, e.hostname, e.domain,
                    e.ip, TRUE, verification_delay, api, fetch_ok),
                 LAMBDA a : CleanLoop(a, Tail(entries), verification_delay,
                                      api, fetch_ok))

\* DNSManager.update_dns(hostname, ip, network_name), without pre-fetched
\* entries.
update_dns_cached(acc, hostname, ip, network_name, verification_delay, api,
                  fetch_ok) ==
    With(get_domain_for_network(network_name), LAMBDA domain :
    With(get_all_dns_entries_cached(acc, FALSE, fetch_ok), LAMBDA got :
       IF entry_exists(got.entries, hostname, domain, ip)
       THEN [got EXCEPT !.ok = FALSE]
       ELSE With(CleanLoop(got,
                           SelectSeq(got.entries,
                                     LAMBDA e : /\ e.hostname = hostname
                                                /\ e.domain = domain
                                                /\ e.ip /= ip),
                           verification_delay, api, fetch_ok),
                 LAMBDA cleaned :
            LET row == [uuid |-> FreshUuid(cleaned.rows), hostname |-> hostname,
                        domain |-> domain, ip |-> ip, ours |-> TRUE]
            IN  IF ~api.add_ok
                THEN [cleaned EXCEPT
                        !.log = Append(@, Event("addHostOverride", hostname,
                                                domain, ip, FALSE, FALSE)),
                        !.ok = FALSE]
                ELSE [cleaned EXCEPT
                        !.rows = Append(@, row),
                        !.log = Append(@, Event("addHostOverride", hostname,
                                                domain, ip, TRUE, FALSE)),
                        !.cache = cache_invalidate(@, all_dns_entries),
                        !.ok = TRUE])))

\* The rows the appliance holds at most.
MaxCachedRows == 2

\* VERIFICATION_DELAY, in ticks of the clock: off, or one tick.
VerificationDelays == {0, 1}

cached_unchanged ==
    <<tracker_vars, tracker_hist, config, records_file, listing_raised,
      returned_after, removals_emitted, prior_ips, dns_manager, faults,
      peer_files, thread_vars, cleanup_vars, timer_vars, calls, latest,
      post_vars, reload_vars, flannel_network>>

\* The call returned: the appliance, the cache and the clock it leaves.
CallReturned(done, to_add, to_remove) ==
    /\ done.t <= MaxClock
    /\ rows' = done.rows
    /\ cache' = done.cache
    /\ now' = done.t
    /\ log' = done.log
    /\ changed' = done.ok
    /\ entries_to_add' = to_add
    /\ entries_to_remove' = to_remove
    /\ UNCHANGED cached_unchanged

GetAllDnsEntries ==
    \E force_refresh \in BOOLEAN, fetch_ok \in BOOLEAN :
       \E done \in {get_all_dns_entries_cached(CachedAcc(rows, cache, now, <<>>),
                                               force_refresh, fetch_ok)} :
          /\ cache' = done.cache
          /\ log' = done.log
          /\ changed' = done.ok
          /\ entries_to_add' = <<>>
          /\ entries_to_remove' = <<>>
          /\ UNCHANGED <<rows, now, cached_unchanged>>

UpdateDns ==
    /\ Len(rows) < MaxCachedRows
    /\ \E entry \in RestAddEntries, api \in ApiPlans(rows),
          fetch_ok \in BOOLEAN, verification_delay \in VerificationDelays :
          CallReturned(
             update_dns_cached(CachedAcc(rows, cache, now, <<>>),
                               entry.hostname, entry.ip, entry.network_name,
                               verification_delay, api, fetch_ok),
             <<entry>>, <<>>)

RemoveSpecificDnsVerified ==
    \E i \in DOMAIN rows, skip_reconfigure \in BOOLEAN, api \in ApiPlans(rows),
       fetch_ok \in BOOLEAN, verification_delay \in VerificationDelays :
       CallReturned(
          remove_specific_dns_verified(CachedAcc(rows, cache, now, <<>>),
                                       rows[i].uuid, rows[i].hostname,
                                       rows[i].domain, rows[i].ip,
                                       skip_reconfigure, verification_delay,
                                       api, fetch_ok),
          <<>>, <<rows[i]>>)

ClockTicks ==
    /\ now < MaxClock
    /\ now' = now + 1
    /\ UNCHANGED <<rows, cache, log, changed, entries_to_add,
                   entries_to_remove, cached_unchanged>>

CachedNext ==
    GetAllDnsEntries \/ UpdateDns \/ RemoveSpecificDnsVerified \/ ClockTicks

SpecRestCache == RestInit /\ [][CachedNext]_vars

\* The call that just returned changed a row of the appliance.
Mutated ==
    \E i \in DOMAIN log : log[i].ev \in RestWrites /\ log[i].ok

\* The list the next get_all_dns_entries returns, the appliance answering.
NextList ==
    get_all_dns_entries_cached(CachedAcc(rows, cache, now, <<>>), FALSE, TRUE).entries

\* The entry the update_dns that just returned has saved.
SavedEntries ==
    {entries_to_add[k] : k \in {j \in DOMAIN entries_to_add : changed}}

\* C38: after every successful REST mutation (an addHostOverride that is
\* saved or a delHostOverride that succeeds) the cache key all_dns_entries
\* is absent, so the next get_all_dns_entries fetches from the appliance and
\* never returns a list computed before the mutation; after a successful
\* add(h, i, d) the next list makes _entry_exists(h, d, i) true.
C38_CacheAbsentAfterMutation ==
    /\ Mutated =>
          /\ all_dns_entries \notin DOMAIN cache
          /\ NextList = get_all_dns_entries(rows)
    /\ \A e \in SavedEntries :
          entry_exists(NextList, e.hostname,
                       get_domain_for_network(e.network_name), e.ip)

\* C38, amended: after every successful REST mutation the cache key
\* all_dns_entries is absent or, when the deletion was verified, holds the
\* list fetched after the mutation; the cache never holds a list that
\* differs from the rows of the appliance, so the next get_all_dns_entries
\* returns the rows as they are after the mutation; after a successful
\* add(h, i, d) the next list makes _entry_exists(h, d, i) true.
C38_CacheNeverStale ==
    /\ Mutated =>
          /\ all_dns_entries \in DOMAIN cache =>
                cache[all_dns_entries].value = get_all_dns_entries(rows)
          /\ NextList = get_all_dns_entries(rows)
    /\ all_dns_entries \in DOMAIN cache =>
          cache[all_dns_entries].value = get_all_dns_entries(rows)
    /\ \A e \in SavedEntries :
          entry_exists(NextList, e.hostname,
                       get_domain_for_network(e.network_name), e.ip)

\* C38: a list was cached, then update_dns saved an entry, and the key is
\* gone.
C38_Witness ==
    /\ \E i \in DOMAIN log : log[i].ev = "addHostOverride" /\ log[i].ok
    /\ \E i \in DOMAIN log : log[i].ev = "delHostOverride" /\ log[i].ok
    /\ ~\E i \in DOMAIN log : log[i].ev = "searchHostOverride"
    /\ SavedEntries /= {}
    /\ all_dns_entries \notin DOMAIN cache


(***************************************************************************)
(* Cleanup runs one after the other, with the batch size and max_hostnames *)
(* the manager is configured with, every delete succeeding and no record   *)
(* added in between.                                                       *)
(***************************************************************************)
CleanupRun ==
    \E batch_size \in 1..MaxBatchSize, max_hostnames \in 1..MaxHostnames :
       /\ cleanup_run /= NoCleanup =>
             /\ batch_size = cleanup_run.batch_size
             /\ max_hostnames = cleanup_run.max_hostnames
       /\ \E res \in {cleanup_dns_records(rows, batch_size, max_hostnames,
                                          host_name, ApiUp)} :
             /\ rows' = res.rows
             /\ log' = res.log
             /\ cleanup_run' =
                   [batch_size |-> batch_size, max_hostnames |-> max_hostnames,
                    before |-> rows, requested |-> res.requested,
                    removed |-> res.removed, api |-> ApiUp]
       /\ UNCHANGED <<dispatch_unchanged, records_file, entries_to_add,
                      entries_to_remove, changed, faults, peer_files,
                      thread_vars, host_name, timer_vars, cache_vars,
                      post_vars, reload_vars, flannel_network>>

SpecCleanupRuns == CleanupInit /\ [][CleanupRun]_vars /\ WF_vars(CleanupRun)

\* The entries of a hostname/domain group other than the one cleanup keeps
\* whose description carries the origin tag.
DeletableDuplicates(data) ==
    SelectSeq(Tail(data.entries), LAMBDA e : e.ours)

NoDeletableDuplicate ==
    \A d \in {hostname_domains(rows)[i] : i \in DOMAIN hostname_domains(rows)} :
        DeletableDuplicates(d) = <<>>

\* C39: repeated cleanup runs make progress: if every delete succeeds and
\* no records are added between runs, then after finitely many
\* cleanup_dns_records runs no (hostname, domain) group still contains a
\* deletable duplicate, also when more than max_hostnames groups contain
\* duplicates that cleanup may not delete.
C39_CleanupProgress == <>NoDeletableDuplicate


(***************************************************************************)
(* listen_for_events with its reconnects, against an appliance that holds  *)
(* rows an earlier run of the program left and that may fail to delete a   *)
(* row it is asked to.                                                     *)
(***************************************************************************)
\* The rows an earlier run left for traefik.docker.local.
LeftRows ==
    {[hostname |-> traefik, domain |-> docker_local, ip |-> ip, ours |-> TRUE] :
        ip \in {"10.0.0.2", "10.244.0.9"}}

LeftInit ==
    /\ TrackerInit
    /\ peer_files = [p \in {peer1, peer2} |-> Header]
    /\ pc = [t \in Threads |-> "idle"]
    /\ current_records = [t \in Threads |-> <<>>]
    /\ batch = [t \in Threads |-> <<>>]
    /\ host_name = "nas"
    /\ cleanup_run = NoCleanup
    /\ since_sync = sync_interval + 1
    /\ since_cleanup = cleanup_interval + 1
    /\ changes_detected = FALSE
    /\ event = Starting
    /\ listener = Listening
    /\ CacheInit
    /\ PostInit
    /\ ReloadInit
    /\ flannel_network = Flannel16
    /\ dns_manager = Manager("HybridDNSManager", FALSE, TRUE)
    /\ faults = NoFaults
    /\ rows \in {RowsOf(vs) : vs \in ListsUpTo(LeftRows, 2)}
    /\ config = MasterConfig
    /\ records_file = Header
    /\ entries_to_add = <<>>
    /\ entries_to_remove = <<>>
    /\ listing_raised = FALSE
    /\ changed = FALSE
    /\ log = <<>>
    /\ returned_after = [c \in Containers |-> 0]
    /\ removals_emitted = [c \in Containers |-> 0]
    /\ prior_ips = {}

\* HybridDNSManager.cleanup_dns_records with the default arguments, the API
\* answering as api says.
hybrid_cleanup_dns_records_on(rows_, hyb, host, api) ==
    IF hyb.api_dns_manager
    THEN cleanup_dns_records(rows_, cleanup_batch_size, cleanup_max_hostnames,
                             host, api)
    ELSE [rows |-> rows_, log |-> <<>>, requested |-> <<>>, removed |-> 0]

\* The start of listen_for_events: sync_dns_entries, then the initial
\* cleanup, in which a delete may fail.
ListenStartupLeft ==
    /\ listener.at = "loop"
    /\ event = Starting
    /\ \E listed \in LoopSnapshots, api \in DeletePlans(rows) :
       \E prep \in PreparedUpdates(get_container_networks(listed, FALSE)) :
       \E synced \in {hybrid_process_dns_changes(records_file, rows, prep[1],
                         prep[2], NoFaults, config, dns_manager)} :
       \E cleaned \in {hybrid_cleanup_dns_records_on(synced.rows, dns_manager,
                                                     host_name, api)} :
          /\ Prepare(get_container_networks(listed, FALSE), FALSE, prep)
          /\ changed' = synced.ok
          /\ records_file' = synced.file
          /\ rows' = cleaned.rows
          /\ log' = synced.log \o cleaned.log
    /\ since_sync' = 0
    /\ since_cleanup' = 0
    /\ changes_detected' = FALSE
    /\ event' = NoEvent
    /\ UNCHANGED <<config, prior_ips, dns_manager, faults, peer_files,
                   thread_vars, cleanup_vars, cache_vars, post_vars,
                   reload_vars, flannel_network, listener>>

LeftNext ==
    \/ ListenStartupLeft
    \/ ListenEventArrives
    \/ ListenHandleEvent
    \/ StreamEnded
    \/ StreamRaised
    \/ Reconnected
    \/ ReconnectFailed

SpecReconnectLeft == LeftInit /\ [][LeftNext]_vars

\* C40: when the event stream has ended and listen_for_events has
\* reconnected while the running containers and their networks are what
\* the last reconciliation saw, no addition or removal is dispatched and no
\* record is added to or deleted from a backend by what follows the
\* reconnect (the startup reconciliation and the startup cleanup are not
\* performed again).
C40_ReconnectChangesNothing ==
    [][(/\ listener.at = "loop" /\ listener.try_frames > 0
        /\ event = Starting /\ event' = NoEvent
        /\ container_networks' = container_networks)
          => /\ \A i \in DOMAIN log' : ~(log'[i].ev \in RestWrites /\ log'[i].ok)
             /\ rows' = rows
             /\ records_file' = records_file]_vars

====
